---------------------------- MODULE Spec2Model ----------------------------
(***************************************************************************)
(* Model of GreenXHeatmeter/core_logic.py: the shared DataStore, the       *)
(* mode classifier, the DBWriterSQLite engine loop, the day segmentation   *)
(* and the month / year / total roll-ups.                                  *)
(*                                                                         *)
(* Units.  All physical values are held as integers in the unit the code   *)
(* rounds them to (round2 keeps two decimals):                             *)
(*   power            W                                                    *)
(*   energy           0.01 kWh                                             *)
(*   temperature      0.01 degC                                            *)
(*   flow             0.01 m3/h                                            *)
(* so round2 of a stored value is the value itself, and the thresholds     *)
(* HPDT = 0.02 degC, HPFLOW = 0.2 m3/h, HPAMB = 20 degC read 2, 20, 2000.  *)
(*                                                                         *)
(* Time.  Timestamps are UTC seconds counted from 2024-12-31 00:00:00 UTC. *)
(* The site zone (Europe/Bucharest) is taken at its winter offset of       *)
(* +2 h, so local day 0 is 2024-12-31 and local day d >= 1 is 2025-01-d.   *)
(* time.time() and now_utc_s() are read within the same iteration and are  *)
(* modelled as one integer clock value.                                    *)
(***************************************************************************)
EXTENDS Integers, Sequences, FiniteSets, TLC

VARIABLES
    now,                  \* wall clock (UTC seconds)
    store,                \* DataStore._d
    first_saved,          \* DBWriterSQLite.first_saved
    last_logical_status,  \* DBWriterSQLite.last_logical_status
    last_status_stored,   \* DBWriterSQLite.last_status_stored
    last_save_time,       \* DBWriterSQLite.last_save_time
    current_day_local,    \* DBWriterSQLite.current_day_local
    last_read_data,       \* DBWriterSQLite.last_read_data
    last_read_ts_utc_s,   \* DBWriterSQLite.last_read_ts_utc_s
    offline_segments,     \* DBWriterSQLite.offline_segments
    hp_samples,           \* table hp_samples
    day_summary,          \* table day_summary
    month_summary,        \* table month_summary
    year_summary,         \* table year_summary
    total_summary,        \* table total_summary
    loc,                  \* locals of the last iteration of DBWriterSQLite.run
    ticks,                \* iterations of DBWriterSQLite.run executed so far
    runs,                 \* process starts so far
    call                  \* the last direct call of a method (none in a running system)

engine == <<first_saved, last_logical_status, last_status_stored, last_save_time,
            current_day_local, last_read_data, last_read_ts_utc_s, offline_segments>>
tables == <<hp_samples, day_summary, month_summary, year_summary, total_summary>>
vars   == <<now, store, engine, tables, loc, ticks, runs, call>>

-----------------------------------------------------------------------------
(* Bounds of the model *)

\* iterations of the engine loop, over all runs
MaxTicks == 4
\* process starts (one start plus MaxRuns - 1 restarts)
MaxRuns == 2

-----------------------------------------------------------------------------
(* Program constants *)

XSEC      == 5
ZSEC      == 10
YSEC      == 300
HPWORK    == 300
HPWORKMIN == 90
HPFLOW    == 20
HPDT      == 2
HPAMB     == 2000

\* timedelta(days=1) and the offset of ROMANIA_TZ (EET)
DaySec   == 86400
TzOffset == 7200

\* Python None for a number (a key absent from a dict, a NULL column)
NULL == -999999
\* Python None for a status
NoStatus == "None"

Max(a, b) == IF a >= b THEN a ELSE b
Min(a, b) == IF a <= b THEN a ELSE b

-----------------------------------------------------------------------------
(* DataStore *)

\* DataStore.__init__: the empty dict.  A key that is absent reads NULL.
EmptyStore ==
    [em_activepower    |-> NULL, em_total_fwd |-> NULL,
     hm_temp_IN        |-> NULL, hm_temp_OUT  |-> NULL,
     hm_activeflow_m3h |-> NULL, hm_flow_m3h  |-> NULL,
     ts_ambient_temp   |-> NULL, ts_ambient_humidity |-> NULL,
     last_ts_utc_s     |-> NULL, status       |-> NoStatus]

\* an update that puts partial in the place of the mapping
StoreUpdate_Replace(d, partial) ==
    [k \in DOMAIN d |-> IF k \in DOMAIN partial THEN partial[k] ELSE EmptyStore[k]]

\* dict.update(partial) under the lock: keys of partial overwrite, the rest stay
StoreUpdate(d, partial) ==
    [k \in DOMAIN d |-> IF k \in DOMAIN partial THEN partial[k] ELSE d[k]]

\* "with self._lock": the lock is free when no call holds it
Unlocked(c) == c.op = "none"

\* a snapshot that does not take the lock
SnapshotEnabled_NoLock(c) == TRUE

\* snapshot enters its "with self._lock" block
SnapshotEnabled(c) == Unlocked(c)

\* `not data_now`: the snapshot holds no key
IsEmpty(d) == d = EmptyStore

-----------------------------------------------------------------------------
(* Mode classifier *)

\* d.get("em_activepower") or 0.0
PowerOf(d) == IF d.em_activepower = NULL THEN 0 ELSE d.em_activepower

\* d.get("hm_activeflow_m3h") or d.get("hm_flow_m3h") or 0.0
FlowOf(d) ==
    IF d.hm_activeflow_m3h # NULL /\ d.hm_activeflow_m3h # 0 THEN d.hm_activeflow_m3h
    ELSE IF d.hm_flow_m3h # NULL /\ d.hm_flow_m3h # 0 THEN d.hm_flow_m3h
    ELSE 0

\* a classifier that forgets the previous mode
LastOrS_Forgetful(last) == "S"

\* a hold-over that takes the pump for heating
LastOrS_Heating(last) == "H"

\* self.last_logical_status or "S"
LastOrS(last) == IF last = NoStatus THEN "S" ELSE last

compute_logical_status(d, last) ==
    LET em_p  == PowerOf(d)
        flow  == FlowOf(d)
        t_in  == d.hm_temp_IN
        t_out == d.hm_temp_OUT
        amb   == d.ts_ambient_temp
    IN  IF em_p > HPWORK /\ flow > 0
        THEN IF t_in # NULL /\ t_out # NULL
             THEN IF t_in > t_out + HPDT THEN "H"
                  ELSE IF t_in + HPDT < t_out
                       THEN IF amb # NULL /\ amb < HPAMB THEN "D" ELSE "C"
                       ELSE LastOrS(last)
             ELSE LastOrS(last)
        ELSE IF em_p > HPWORKMIN /\ flow > HPFLOW
             THEN LastOrS(last)
             ELSE "S"

-----------------------------------------------------------------------------
(* Local calendar *)

\* datetime.fromtimestamp(ts, utc).astimezone(ROMANIA_TZ).date(), as a day index
LocalDay(ts) == (ts + TzOffset) \div DaySec

\* int(datetime(y, m, d, 0, 0, 0, tzinfo=ROMANIA_TZ).astimezone(utc).timestamp())
DayStartUtc(day) == day * DaySec - TzOffset

\* day_local.year, .month, .day for the days the model reaches (1 <= day <= 31
\* in January 2025, day 0 is 2024-12-31)
DateOf(day) ==
    IF day <= 0 THEN [year |-> 2024, month |-> 12, day |-> 31 + day]
                ELSE [year |-> 2025, month |-> 1,  day |-> day]

-----------------------------------------------------------------------------
(* Table hp_samples *)

Boundary == {"ON", "OFF"}
allowed_status == {"S", "H", "C", "D"}

\* the row insert_sample builds from a snapshot (g(name) = round2 of the value,
\* None when the key is absent)
SampleRow(data, status, ts_utc_s) ==
    [ts_utc_s          |-> ts_utc_s,
     status            |-> status,
     em_activepower    |-> data.em_activepower,
     em_total_fwd      |-> data.em_total_fwd,
     hm_temp_IN        |-> data.hm_temp_IN,
     hm_temp_OUT       |-> data.hm_temp_OUT,
     hm_activeflow_m3h |-> data.hm_activeflow_m3h,
     ts_ambient_temp   |-> data.ts_ambient_temp]

\* INSERT OR REPLACE INTO hp_samples: ts_utc_s is the primary key
insert_sample(samples, data, status, ts_utc_s) ==
    {r \in samples : r.ts_utc_s # ts_utc_s} \cup {SampleRow(data, status, ts_utc_s)}

\* ORDER BY ts_utc_s ASC
RECURSIVE OrderByTs(_)
OrderByTs(S) ==
    IF S = {} THEN <<>>
    ELSE LET m == CHOOSE r \in S : \A q \in S : r.ts_utc_s <= q.ts_utc_s
         IN  <<m>> \o OrderByTs(S \ {m})

\* SELECT ts_utc_s ... WHERE ts_utc_s < ? AND status NOT IN ('ON','OFF')
\* ORDER BY ts_utc_s DESC LIMIT 1   (NULL when there is no such row)
LastNonBoundaryBefore(samples, ts) ==
    LET c == {r.ts_utc_s : r \in {q \in samples : q.ts_utc_s < ts /\ q.status \notin Boundary}}
    IN  IF c = {} THEN NULL ELSE CHOOSE t \in c : \A u \in c : u <= t

\* SELECT ts_utc_s ... WHERE status NOT IN ('ON','OFF') ORDER BY ts_utc_s DESC LIMIT 1
LastNonBoundary(samples) ==
    LET c == {r.ts_utc_s : r \in {q \in samples : q.status \notin Boundary}}
    IN  IF c = {} THEN NULL ELSE CHOOSE t \in c : \A u \in c : u <= t

-----------------------------------------------------------------------------
(* OFF segments of an offline gap *)

\* the gap kept as one interval, filed under the day it starts in
compute_offline_segments_Unsplit(start_ts_utc_s, end_ts_utc_s) ==
    IF start_ts_utc_s = NULL \/ end_ts_utc_s = NULL THEN {}
    ELSE IF end_ts_utc_s <= start_ts_utc_s THEN {}
    ELSE {[day |-> LocalDay(start_ts_utc_s), seg_start |-> start_ts_utc_s,
           seg_end |-> end_ts_utc_s]}

\* the dict {day: [(start, end)]} as a set of records; every day gets at most
\* one interval
compute_offline_segments(start_ts_utc_s, end_ts_utc_s) ==
    IF start_ts_utc_s = NULL \/ end_ts_utc_s = NULL THEN {}
    ELSE IF end_ts_utc_s <= start_ts_utc_s THEN {}
    ELSE LET day_start == LocalDay(start_ts_utc_s)
             day_end   == LocalDay(end_ts_utc_s)
             SegStart(day) == IF day = day_start THEN start_ts_utc_s
                              ELSE DayStartUtc(day)
             SegEnd(day)   == IF day = day_end THEN end_ts_utc_s
                              ELSE DayStartUtc(day) + DaySec
         IN  {[day |-> day, seg_start |-> SegStart(day), seg_end |-> SegEnd(day)] :
                  day \in {d \in day_start .. day_end : SegEnd(d) > SegStart(d)}}

-----------------------------------------------------------------------------
(* Table day_summary *)

\* INSERT OR REPLACE INTO day_summary: PRIMARY KEY(day_date, status, start_ts_utc_s)
DayUpsert(tab, row) ==
    {r \in tab : ~(r.day_date = row.day_date /\ r.status = row.status
                   /\ r.start_ts_utc_s = row.start_ts_utc_s)} \cup {row}

RECURSIVE SumSeq(_)
SumSeq(s) == IF s = <<>> THEN 0 ELSE Head(s) + SumSeq(Tail(s))

\* round2(a / n) for values held in hundredths: the nearest integer, a tie
\* going to the even one (Python's round)
RoundDiv(a, n) ==
    LET q == a \div n
        r == a % n
    IN  IF 2 * r < n THEN q
        ELSE IF 2 * r > n THEN q + 1
        ELSE IF q % 2 = 0 THEN q ELSE q + 1

\* an average that takes a missing value for zero
AvgTempIn_NullAsZero(seg, status) ==
    LET vals == SelectSeq(seg, LAMBDA r : r.status = status)
    IN  IF vals = <<>> THEN 0
        ELSE RoundDiv(SumSeq([k \in 1 .. Len(vals) |->
                                 IF vals[k].hm_temp_IN = NULL THEN 0 ELSE vals[k].hm_temp_IN]),
                      Len(vals))

\* avg(col) of _store_day_segment, for the column hm_temp_IN
AvgTempIn(seg, status) ==
    LET vals == SelectSeq(seg, LAMBDA r : r.status = status /\ r.hm_temp_IN # NULL)
    IN  IF vals = <<>> THEN NULL
        ELSE RoundDiv(SumSeq([k \in 1 .. Len(vals) |-> vals[k].hm_temp_IN]), Len(vals))

\* rows is 1-based here: rows[i_start] .. rows[i_end]
_store_day_segment(tab, day, day_start_utc_s, rows, i_start, i_end) ==
    IF i_end <= i_start THEN tab
    ELSE LET first    == rows[i_start]
             last     == rows[i_end]
             ts_start == first.ts_utc_s
             status   == first.status
             ts_end   == last.ts_utc_s
         IN  IF status \notin allowed_status THEN tab
             ELSE IF ts_end <= ts_start THEN tab
             ELSE DayUpsert(tab,
                    [day_date        |-> day,
                     day_start_utc_s |-> day_start_utc_s,
                     status          |-> status,
                     start_ts_utc_s  |-> ts_start,
                     end_ts_utc_s    |-> ts_end,
                     total_time_s    |-> ts_end - ts_start,
                     consumption_kw  |-> IF last.em_total_fwd # NULL /\ first.em_total_fwd # NULL
                                         THEN last.em_total_fwd - first.em_total_fwd
                                         ELSE NULL,
                     hp_temp_in      |-> AvgTempIn(SubSeq(rows, i_start, i_end), status)])

\* 1) the ON rows of build_day_summary_for_date
RECURSIVE InsertOnRows(_, _, _, _, _, _)
InsertOnRows(tab, samples, day, day_start_utc_s, rows, i) ==
    IF i > Len(rows) THEN tab
    ELSE IF rows[i].status # "ON"
         THEN InsertOnRows(tab, samples, day, day_start_utc_s, rows, i + 1)
         ELSE LET ts   == rows[i].ts_utc_s
                  prev == LastNonBoundaryBefore(samples, ts)
              IN  InsertOnRows(
                    DayUpsert(tab,
                      [day_date        |-> day,
                       day_start_utc_s |-> day_start_utc_s,
                       status          |-> "ON",
                       start_ts_utc_s  |-> IF prev # NULL THEN prev ELSE ts,
                       end_ts_utc_s    |-> ts,
                       total_time_s    |-> 0,
                       consumption_kw  |-> NULL,
                       hp_temp_in      |-> rows[i].hm_temp_IN]),
                    samples, day, day_start_utc_s, rows, i + 1)

\* the index a run is closed at when row i ends it (lines 616 and 626)
RunEnd(i) == i - 1

\* 2) the S/H/C/D loop of build_day_summary_for_date; segment_start_idx = 0
\* stands for None, segment_status is rows[segment_start_idx].status
RECURSIVE SegmentLoop(_, _, _, _, _, _)
SegmentLoop(tab, day, day_start_utc_s, rows, i, segment_start_idx) ==
    IF i > Len(rows)
    THEN IF segment_start_idx # 0
         THEN _store_day_segment(tab, day, day_start_utc_s, rows, segment_start_idx, Len(rows))
         ELSE tab
    ELSE IF rows[i].status \notin allowed_status
         THEN SegmentLoop(
                IF segment_start_idx # 0
                THEN _store_day_segment(tab, day, day_start_utc_s, rows, segment_start_idx, RunEnd(i))
                ELSE tab,
                day, day_start_utc_s, rows, i + 1, 0)
         ELSE IF segment_start_idx = 0
              THEN SegmentLoop(tab, day, day_start_utc_s, rows, i + 1, i)
              ELSE IF rows[i].status # rows[segment_start_idx].status
                   THEN SegmentLoop(
                          _store_day_segment(tab, day, day_start_utc_s, rows, segment_start_idx, RunEnd(i)),
                          day, day_start_utc_s, rows, i + 1, i)
                   ELSE SegmentLoop(tab, day, day_start_utc_s, rows, i + 1, segment_start_idx)

\* 3) the OFF rows of build_day_summary_for_date
RECURSIVE InsertOffRows(_, _, _, _, _)
InsertOffRows(tab, day, start_utc_s, end_utc_s, off_list) ==
    IF off_list = {} THEN tab
    ELSE LET o == CHOOSE x \in off_list : TRUE
             s == Max(o.seg_start, start_utc_s)
             e == Min(o.seg_end, end_utc_s)
             rest == InsertOffRows(tab, day, start_utc_s, end_utc_s, off_list \ {o})
         IN  IF o.seg_end <= o.seg_start \/ e <= s THEN rest
             ELSE DayUpsert(rest,
                    [day_date        |-> day,
                     day_start_utc_s |-> start_utc_s,
                     status          |-> "OFF",
                     start_ts_utc_s  |-> s,
                     end_ts_utc_s    |-> e,
                     total_time_s    |-> e - s,
                     consumption_kw  |-> NULL,
                     hp_temp_in      |-> NULL])

\* a selection with no lower end
DayRows_NoStart(samples, start_utc_s, end_utc_s) ==
    {r \in samples : r.ts_utc_s <= end_utc_s}

\* SELECT ... FROM hp_samples WHERE ts_utc_s >= ? AND ts_utc_s <= ?
DayRows(samples, start_utc_s, end_utc_s) ==
    {r \in samples : r.ts_utc_s >= start_utc_s /\ r.ts_utc_s <= end_utc_s}

\* a rebuild that clears only the day's OFF rows
DeleteDay_OnlyOff(tab, day) == {r \in tab : r.day_date # day \/ r.status # "OFF"}

\* a rebuild that does not clear the day first
DeleteDay_Keep(tab, day) == tab

\* DELETE FROM day_summary WHERE day_date = ?
DeleteDay(tab, day) == {r \in tab : r.day_date # day}

\* the new content of day_summary
build_day_summary_for_date(samples, tab, off, day) ==
    LET start_utc_s == DayStartUtc(day)
        end_utc_s   == DayStartUtc(day) + DaySec
        rows        == OrderByTs(DayRows(samples, start_utc_s, end_utc_s))
        t0          == DeleteDay(tab, day)
        t1          == InsertOnRows(t0, samples, day, start_utc_s, rows, 1)
        t2          == SegmentLoop(t1, day, start_utc_s, rows, 1, 0)
    IN  InsertOffRows(t2, day, start_utc_s, end_utc_s, {o \in off : o.day = day})

-----------------------------------------------------------------------------
(* Tables month_summary, year_summary, total_summary *)

RECURSIVE SumSet(_, _)
SumSet(f, S) ==
    IF S = {} THEN 0
    ELSE LET x == CHOOSE y \in S : TRUE IN f[x] + SumSet(f, S \ {x})

\* SQL SUM(expr): NULL operands are skipped, the sum of no value is NULL
SqlSum(f, S) ==
    LET nn == {x \in S : f[x] # NULL}
    IN  IF nn = {} THEN NULL ELSE SumSet(f, nn)

\* wavg(weighted, total_t)
wavg(weighted, total_t) ==
    IF weighted # NULL /\ total_t # NULL /\ total_t > 0
    THEN RoundDiv(weighted, total_t) ELSE NULL

\* the columns every roll-up SELECT computes for one status group G:
\* SUM(total_time_s), SUM(consumption_kw), SUM(hp_temp_in * total_time_s),
\* SUM(total_time_s) AS t_weight
GroupSums(G) ==
    [t_sum        |-> SqlSum([r \in G |-> r.total_time_s], G),
     cons_sum     |-> SqlSum([r \in G |-> r.consumption_kw], G),
     tin_weighted |-> SqlSum([r \in G |-> IF r.hp_temp_in = NULL \/ r.total_time_s = NULL
                                          THEN NULL
                                          ELSE r.hp_temp_in * r.total_time_s], G),
     t_weight     |-> SqlSum([r \in G |-> r.total_time_s], G)]

\* int(x) if x else 0
IntOrZero(x) == IF x = NULL THEN 0 ELSE x

\* the value columns of the row a roll-up inserts for one status
RollupValues(status, g) ==
    IF status = "ON"
    THEN [total_time_s |-> 0, consumption_kw |-> NULL, hp_temp_in |-> NULL]
    ELSE [total_time_s   |-> IntOrZero(g.t_sum),
          consumption_kw |-> g.cons_sum,
          hp_temp_in     |-> wavg(g.tin_weighted, g.t_weight)]

\* MONTH table: DELETE the day's rows, then one row per status of day_summary
UpdateMonth(daytab, monthtab, day_local) ==
    LET dt   == DateOf(day_local)
        kept == {r \in monthtab : ~(r.year = dt.year /\ r.month = dt.month /\ r.day = dt.day)}
        src  == {r \in daytab : r.day_date = day_local}
        Row(status) ==
            LET G == {r \in src : r.status = status}
                v == RollupValues(status, GroupSums(G))
            IN  [year |-> dt.year, month |-> dt.month, day |-> dt.day, status |-> status,
                 total_time_s |-> v.total_time_s, consumption_kw |-> v.consumption_kw,
                 hp_temp_in |-> v.hp_temp_in,
                 times_a_day |-> Cardinality(G)]
    IN  kept \cup {Row(st) : st \in {r.status : r \in src}}

\* a YEAR roll-up whose event count is the number of MonthDay rows it read
UpdateYear_CountsRows(monthtab, yeartab, day_local) ==
    LET dt   == DateOf(day_local)
        kept == {r \in yeartab : ~(r.year = dt.year /\ r.month = dt.month)}
        src  == {r \in monthtab : r.year = dt.year /\ r.month = dt.month}
        Row(status) ==
            LET G == {r \in src : r.status = status}
                v == RollupValues(status, GroupSums(G))
            IN  [year |-> dt.year, month |-> dt.month, status |-> status,
                 total_time_s |-> v.total_time_s, consumption_kw |-> v.consumption_kw,
                 hp_temp_in |-> v.hp_temp_in,
                 times_a_month |-> Cardinality(G)]
    IN  kept \cup {Row(st) : st \in {r.status : r \in src}}

\* YEAR table: DELETE the month's rows, then one row per status of month_summary
UpdateYear(monthtab, yeartab, day_local) ==
    LET dt   == DateOf(day_local)
        kept == {r \in yeartab : ~(r.year = dt.year /\ r.month = dt.month)}
        src  == {r \in monthtab : r.year = dt.year /\ r.month = dt.month}
        Row(status) ==
            LET G == {r \in src : r.status = status}
                v == RollupValues(status, GroupSums(G))
            IN  [year |-> dt.year, month |-> dt.month, status |-> status,
                 total_time_s |-> v.total_time_s, consumption_kw |-> v.consumption_kw,
                 hp_temp_in |-> v.hp_temp_in,
                 times_a_month |-> IntOrZero(SqlSum([r \in G |-> r.times_a_day], G))]
    IN  kept \cup {Row(st) : st \in {r.status : r \in src}}

\* TOTAL table: DELETE the year's rows, then one row per status of year_summary
UpdateTotal(yeartab, totaltab, day_local) ==
    LET dt   == DateOf(day_local)
        kept == {r \in totaltab : r.year # dt.year}
        src  == {r \in yeartab : r.year = dt.year}
        Row(status) ==
            LET G == {r \in src : r.status = status}
                v == RollupValues(status, GroupSums(G))
            IN  [year |-> dt.year, status |-> status,
                 total_time_s |-> v.total_time_s, consumption_kw |-> v.consumption_kw,
                 hp_temp_in |-> v.hp_temp_in,
                 times_a_year |-> IntOrZero(SqlSum([r \in G |-> r.times_a_month], G))]
    IN  kept \cup {Row(st) : st \in {r.status : r \in src}}

\* the database as one value: s = hp_samples, d = day_summary, m = month_summary,
\* y = year_summary, t = total_summary
update_month_year_total_for_day(db, day_local) ==
    LET m2 == UpdateMonth(db.d, db.m, day_local)
        y2 == UpdateYear(m2, db.y, day_local)
        t2 == UpdateTotal(y2, db.t, day_local)
    IN  [s |-> db.s, d |-> db.d, m |-> m2, y |-> y2, t |-> t2]

\* a rebuild of the day that is not followed by the roll-up
RebuildDay_NoRollup(db, off, day_local) ==
    [db EXCEPT !.d = build_day_summary_for_date(db.s, db.d, off, day_local)]

\* build_day_summary_for_date(day) followed by update_month_year_total_for_day(day)
RebuildDay(db, off, day_local) ==
    update_month_year_total_for_day(
        [s |-> db.s, d |-> build_day_summary_for_date(db.s, db.d, off, day_local),
         m |-> db.m, y |-> db.y, t |-> db.t],
        day_local)

\* for day_str in sorted(self.offline_segments.keys()): rebuild and roll up
RECURSIVE RebuildOfflineDays(_, _, _)
RebuildOfflineDays(db, off, days) ==
    IF days = {} THEN db
    ELSE LET d == CHOOSE x \in days : \A z \in days : x <= z
         IN  RebuildOfflineDays(RebuildDay(db, off, d), off, days \ {d})

-----------------------------------------------------------------------------
(* DBWriterSQLite.run: the decisions of one iteration *)

\* a run whose first write carries the classifier's output
StatusToStore_Plain(saved, logical_status) == logical_status

\* status_to_store: "ON" until the run has written, the classifier's output after
StatusToStore(saved, logical_status) == IF ~saved THEN "ON" ELSE logical_status

\* a change of status that goes unnoticed
StatusChanged_Never(prev_status_stored, status_to_store) == FALSE

\* a comparison that does not take leaving ON for a change
StatusChanged_AmongModes(prev_status_stored, status_to_store) ==
    /\ prev_status_stored # NoStatus /\ prev_status_stored # "ON"
    /\ status_to_store # prev_status_stored

\* status_changed = prev_status_stored is not None and status_to_store != prev_status_stored
StatusChanged(prev_status_stored, status_to_store) ==
    prev_status_stored # NoStatus /\ status_to_store # prev_status_stored

\* every status waits as long as Standby
IntervalNeeded_AlwaysStandby(status_to_store) == YSEC

\* the two dwell intervals taken for one another
IntervalNeeded_Swapped(status_to_store) == IF status_to_store = "S" THEN ZSEC ELSE YSEC

\* interval_needed = YSEC if status_to_store == "S" else ZSEC
IntervalNeeded(status_to_store) == IF status_to_store = "S" THEN YSEC ELSE ZSEC

\* a decision that waits for the dwell interval even when the status changed
ShouldWrite_DwellOnly(saved, status_changed, status_to_store, now_t, save_time) ==
    IF ~saved THEN TRUE
    ELSE (now_t - save_time) >= IntervalNeeded(status_to_store)

\* should_write
ShouldWrite(saved, status_changed, status_to_store, now_t, save_time) ==
    IF ~saved THEN TRUE
    ELSE IF status_changed THEN TRUE
    ELSE (now_t - save_time) >= IntervalNeeded(status_to_store)

\* bridging on every change of status, whatever the stored status was
BridgeNeeded_AnyChange(saved, status_changed, prev_status_stored, status_to_store, now_t, save_time, read_data, read_ts) ==
    /\ saved
    /\ status_changed
    /\ now_t - save_time > XSEC
    /\ read_data # EmptyStore
    /\ read_ts # NULL

\* the condition under which the previous read is inserted as an "S" sample
\* (last_read_data is None exactly when it is the empty mapping: an empty
\* snapshot is never recorded)
BridgeNeeded(saved, status_changed, prev_status_stored, status_to_store, now_t, save_time, read_data, read_ts) ==
    /\ saved
    /\ status_changed
    /\ prev_status_stored = "S"
    /\ status_to_store # "S"
    /\ now_t - save_time > XSEC
    /\ read_data # EmptyStore
    /\ read_ts # NULL

\* pending_offline: the start of the offline gap, NULL when there is none
PendingOffline(saved, samples, ts_now_utc_s) ==
    LET offline_start_ts == LastNonBoundary(samples)
    IN  IF ~saved /\ offline_start_ts # NULL /\ ts_now_utc_s > offline_start_ts
        THEN offline_start_ts ELSE NULL

NoCall == [op |-> "none"]

NoLoc ==
    [processed |-> FALSE, ts_now_utc_s |-> NULL, rollover |-> FALSE,
     logical_status |-> NoStatus, status_to_store |-> NoStatus,
     status_changed |-> FALSE, should_write |-> FALSE, bridged |-> FALSE,
     pending_offline |-> NULL]

-----------------------------------------------------------------------------
(* Inputs of the model *)

\* the clock at the first process start: 15 s before a local midnight
T0 == DayStartUtc(1) - 15

\* the time between two iterations of the engine loop: time.sleep(XSEC) plus
\* whatever the iteration and the scheduler add
TickSteps == {XSEC, 295}

\* the time a process stays down before it is started again
RestartGaps == {60, DaySec}

\* what one poll cycle of BusReader leaves in the store
BusPartials ==
    {[em_activepower |-> 50,  em_total_fwd |-> 100, ts_ambient_temp |-> 500],
     [em_activepower |-> 400, em_total_fwd |-> 103, ts_ambient_temp |-> 500]}

\* what one poll cycle of HeatReader leaves in the store
HeatPartials ==
    {[hm_temp_IN |-> 4500, hm_temp_OUT |-> 4000, hm_activeflow_m3h |-> 50, hm_flow_m3h |-> 50]}

-----------------------------------------------------------------------------
(* Actions *)

Init ==
    /\ now = T0
    /\ store = EmptyStore
    /\ first_saved = FALSE
    /\ last_logical_status = NoStatus
    /\ last_status_stored = NoStatus
    /\ last_save_time = 0
    /\ current_day_local = LocalDay(T0)
    /\ last_read_data = EmptyStore
    /\ last_read_ts_utc_s = NULL
    /\ offline_segments = {}
    /\ loc = NoLoc
    /\ hp_samples = {}
    /\ day_summary = {}
    /\ month_summary = {}
    /\ year_summary = {}
    /\ total_summary = {}
    /\ ticks = 0
    /\ runs = 1
    /\ call = NoCall

\* BusReader.run: the STORE.update calls of one cycle
BusReaderCycle(partial) ==
    /\ store' = StoreUpdate(store, partial)
    /\ UNCHANGED <<now, engine, tables, loc, ticks, runs, call>>

\* HeatReader.run: the STORE.update calls of one cycle
HeatReaderCycle(partial) ==
    /\ store' = StoreUpdate(store, partial)
    /\ UNCHANGED <<now, engine, tables, loc, ticks, runs, call>>

\* the database as one value
Db == [s |-> hp_samples, d |-> day_summary, m |-> month_summary,
       y |-> year_summary, t |-> total_summary]

\* a day change that only advances the day
AfterRollover_Skip(db, off, day_before, today) == db

\* "Day change": the previous day is rebuilt and rolled up before anything else
AfterRollover(db, off, day_before, today) ==
    IF today # day_before THEN RebuildDay(db, off, day_before) ELSE db

\* a bridging insert that stores the previous read under the new status
AfterInserts_BridgeNewStatus(db, bridge, read_data, read_ts, data_now, status_to_store, ts_now_utc_s) ==
    [db EXCEPT !.s = insert_sample(
        IF bridge THEN insert_sample(db.s, read_data, status_to_store, read_ts) ELSE db.s,
        data_now, status_to_store, ts_now_utc_s)]

\* the bridging insert, then the insert of the current sample
AfterInserts(db, bridge, read_data, read_ts, data_now, status_to_store, ts_now_utc_s) ==
    [db EXCEPT !.s = insert_sample(
        IF bridge THEN insert_sample(db.s, read_data, "S", read_ts) ELSE db.s,
        data_now, status_to_store, ts_now_utc_s)]

\* self.offline_segments after the first write of a run
OfflineAfterWrite(off, saved, pending_offline, ts_now_utc_s) ==
    IF ~saved /\ pending_offline # NULL
    THEN compute_offline_segments(pending_offline, ts_now_utc_s)
    ELSE off

\* rebuilds that leave today to the next rollover
AfterRebuilds_NotToday(db, saved, pending_offline, off, status_changed, today) ==
    IF ~saved /\ pending_offline # NULL
    THEN RebuildOfflineDays(db, off, {o.day : o \in off})
    ELSE db

\* the rebuilds that follow the insert: the days of the offline gap on the
\* first write of a run, then today when the status changed
AfterRebuilds(db, saved, pending_offline, off, status_changed, today) ==
    IF ~saved /\ pending_offline # NULL
    THEN IF status_changed
         THEN RebuildDay(RebuildOfflineDays(db, off, {o.day : o \in off}), off, today)
         ELSE RebuildOfflineDays(db, off, {o.day : o \in off})
    ELSE IF status_changed THEN RebuildDay(db, off, today) ELSE db

\* the tables as an initial state, with the samples of the running process
SetTablesTo(db, samples) ==
    /\ hp_samples = samples
    /\ day_summary = db.d
    /\ month_summary = db.m
    /\ year_summary = db.y
    /\ total_summary = db.t

\* the tables as an iteration leaves them
SetTables(db) ==
    /\ hp_samples' = db.s
    /\ day_summary' = db.d
    /\ month_summary' = db.m
    /\ year_summary' = db.y
    /\ total_summary' = db.t

\* an iteration that does not write but restarts the dwell clock
TickSkipWrite_Saves(data_now, ts_now_utc_s, today, logical_status, status_to_store, status_changed, pending_offline, db) ==
    /\ last_logical_status' = logical_status
    /\ last_read_data' = data_now
    /\ last_read_ts_utc_s' = ts_now_utc_s
    /\ last_save_time' = ts_now_utc_s
    /\ current_day_local' = today
    /\ SetTables(db)
    /\ loc' = [processed |-> TRUE, ts_now_utc_s |-> ts_now_utc_s,
               rollover |-> today # current_day_local,
               logical_status |-> logical_status,
               status_to_store |-> status_to_store,
               status_changed |-> status_changed, should_write |-> FALSE,
               bridged |-> FALSE, pending_offline |-> pending_offline]
    /\ UNCHANGED <<store, first_saved, last_status_stored, offline_segments>>

\* an iteration that does not write ("if not should_write: ... continue")
TickSkipWrite(data_now, ts_now_utc_s, today, logical_status, status_to_store, status_changed, pending_offline, db) ==
    /\ last_logical_status' = logical_status
    /\ last_read_data' = data_now
    /\ last_read_ts_utc_s' = ts_now_utc_s
    /\ current_day_local' = today
    /\ SetTables(db)
    /\ loc' = [processed |-> TRUE, ts_now_utc_s |-> ts_now_utc_s,
               rollover |-> today # current_day_local,
               logical_status |-> logical_status,
               status_to_store |-> status_to_store,
               status_changed |-> status_changed, should_write |-> FALSE,
               bridged |-> FALSE, pending_offline |-> pending_offline]
    /\ UNCHANGED <<store, first_saved, last_status_stored, last_save_time,
                   offline_segments>>

\* an iteration that takes the stored status for the mode
TickWrite_ModeFromStored(data_now, ts_now_utc_s, today, logical_status, status_to_store, status_changed, pending_offline, bridge, off, db) ==
    /\ store' = StoreUpdate(store, [last_ts_utc_s |-> ts_now_utc_s,
                                    status |-> status_to_store])
    /\ first_saved' = TRUE
    /\ last_logical_status' = status_to_store
    /\ last_save_time' = ts_now_utc_s
    /\ last_status_stored' = status_to_store
    /\ last_read_data' = data_now
    /\ last_read_ts_utc_s' = ts_now_utc_s
    /\ current_day_local' = today
    /\ offline_segments' = off
    /\ SetTables(AfterRebuilds(db, first_saved, pending_offline, off, status_changed, today))
    /\ loc' = [processed |-> TRUE, ts_now_utc_s |-> ts_now_utc_s,
               rollover |-> today # current_day_local,
               logical_status |-> logical_status,
               status_to_store |-> status_to_store,
               status_changed |-> status_changed, should_write |-> TRUE,
               bridged |-> bridge, pending_offline |-> pending_offline]

\* an iteration that writes
TickWrite(data_now, ts_now_utc_s, today, logical_status, status_to_store, status_changed, pending_offline, bridge, off, db) ==
    /\ store' = StoreUpdate(store, [last_ts_utc_s |-> ts_now_utc_s,
                                    status |-> status_to_store])
    /\ first_saved' = TRUE
    /\ last_logical_status' = logical_status
    /\ last_save_time' = ts_now_utc_s
    /\ last_status_stored' = status_to_store
    /\ last_read_data' = data_now
    /\ last_read_ts_utc_s' = ts_now_utc_s
    /\ current_day_local' = today
    /\ offline_segments' = off
    /\ SetTables(AfterRebuilds(db, first_saved, pending_offline, off, status_changed, today))
    /\ loc' = [processed |-> TRUE, ts_now_utc_s |-> ts_now_utc_s,
               rollover |-> today # current_day_local,
               logical_status |-> logical_status,
               status_to_store |-> status_to_store,
               status_changed |-> status_changed, should_write |-> TRUE,
               bridged |-> bridge, pending_offline |-> pending_offline]

\* the iteration from "decidem daca scriem" on
TickDecide(data_now, ts_now_utc_s, today, logical_status, status_to_store, status_changed, pending_offline, db) ==
    IF ~ShouldWrite(first_saved, status_changed, status_to_store,
                    ts_now_utc_s, last_save_time)
    THEN TickSkipWrite(data_now, ts_now_utc_s, today, logical_status, status_to_store,
                       status_changed, pending_offline, db)
    ELSE TickWrite(data_now, ts_now_utc_s, today, logical_status, status_to_store,
                   status_changed, pending_offline,
                   BridgeNeeded(first_saved, status_changed, last_status_stored,
                                status_to_store, ts_now_utc_s, last_save_time,
                                last_read_data, last_read_ts_utc_s),
                   OfflineAfterWrite(offline_segments, first_saved, pending_offline,
                                     ts_now_utc_s),
                   AfterInserts(db,
                       BridgeNeeded(first_saved, status_changed, last_status_stored,
                                    status_to_store, ts_now_utc_s, last_save_time,
                                    last_read_data, last_read_ts_utc_s),
                       last_read_data, last_read_ts_utc_s,
                       data_now, status_to_store, ts_now_utc_s))

\* the iteration from the classifier on
TickClassified(data_now, ts_now_utc_s, today, logical_status, status_to_store) ==
    TickDecide(data_now, ts_now_utc_s, today, logical_status, status_to_store,
               StatusChanged(last_status_stored, status_to_store),
               PendingOffline(first_saved, hp_samples, ts_now_utc_s),
               AfterRollover(Db, offline_segments, current_day_local, today))

\* the iteration on a snapshot that is not empty, at time ts_now_utc_s (= now_t)
TickProcess(data_now, ts_now_utc_s, logical_status) ==
    TickClassified(data_now, ts_now_utc_s, LocalDay(ts_now_utc_s), logical_status,
                   StatusToStore(first_saved, logical_status))

\* one iteration of the while loop of DBWriterSQLite.run, entered dt seconds
\* after the previous one: XSEC after a start or an iteration that found the
\* store empty (they do nothing but time.sleep(XSEC)), XSEC or longer after an
\* iteration that worked on the database
Tick(dt) ==
    /\ ticks < MaxTicks
    /\ ~loc.processed => dt = XSEC
    /\ ticks' = ticks + 1
    /\ now' = now + dt
    /\ UNCHANGED <<runs, call>>
    /\ IF IsEmpty(store)
       THEN /\ loc' = NoLoc
            /\ UNCHANGED <<store, engine, tables>>
       ELSE TickProcess(store, now + dt,
                        compute_logical_status(store, last_logical_status))

\* the process is stopped and started again gap seconds later: the database
\* file stays, DBWriterSQLite.__init__ and the module-level STORE start anew
Restart(gap) ==
    /\ runs < MaxRuns
    /\ ticks < MaxTicks
    /\ first_saved
    /\ runs' = runs + 1
    /\ now' = now + gap
    /\ store' = EmptyStore
    /\ first_saved' = FALSE
    /\ last_logical_status' = NoStatus
    /\ last_status_stored' = NoStatus
    /\ last_save_time' = 0
    /\ current_day_local' = LocalDay(now + gap)
    /\ last_read_data' = EmptyStore
    /\ last_read_ts_utc_s' = NULL
    /\ offline_segments' = {}
    /\ loc' = NoLoc
    /\ UNCHANGED <<tables, ticks, call>>

Next ==
    \/ \E p \in BusPartials : BusReaderCycle(p)
    \/ \E p \in HeatPartials : HeatReaderCycle(p)
    \/ \E dt \in TickSteps : Tick(dt)
    \/ \E gap \in RestartGaps : Restart(gap)

Spec == Init /\ [][Next]_vars

-----------------------------------------------------------------------------
(* The classifier on its own: compute_logical_status applied to a snapshot  *)
(* and a previous mode drawn from sets that straddle every threshold.       *)

PowerVals == {NULL, 0, HPWORKMIN, HPWORKMIN + 1, HPWORK, HPWORK + 1}
FlowVals  == {NULL, 0, 1, HPFLOW, HPFLOW + 1}
TOutVals  == {NULL, 4000}
TInVals   == {NULL, 4000 - HPDT - 1, 4000 - HPDT, 4000, 4000 + HPDT, 4000 + HPDT + 1}
AmbVals   == {NULL, HPAMB - 1, HPAMB}

\* HeatReader writes hm_activeflow_m3h and hm_flow_m3h together, with one value
ClassifierSnapshots ==
    {[EmptyStore EXCEPT !.em_activepower = p, !.hm_activeflow_m3h = f, !.hm_flow_m3h = f,
                        !.hm_temp_IN = ti, !.hm_temp_OUT = to, !.ts_ambient_temp = a] :
        p \in PowerVals, f \in FlowVals, ti \in TInVals, to \in TOutVals, a \in AmbVals}

InitClassify ==
    /\ now = T0
    /\ store \in ClassifierSnapshots
    /\ first_saved = FALSE
    /\ last_logical_status \in {NoStatus} \cup allowed_status
    /\ last_status_stored = NoStatus
    /\ last_save_time = 0
    /\ current_day_local = LocalDay(T0)
    /\ last_read_data = EmptyStore
    /\ last_read_ts_utc_s = NULL
    /\ offline_segments = {}
    /\ loc = NoLoc
    /\ hp_samples = {}
    /\ day_summary = {}
    /\ month_summary = {}
    /\ year_summary = {}
    /\ total_summary = {}
    /\ ticks = 0
    /\ runs = 1
    /\ call = NoCall

\* logical_status = self.compute_logical_status(data_now)
ClassifyCall ==
    /\ call.op = "none"
    /\ call' = [op |-> "compute_logical_status",
                result |-> compute_logical_status(store, last_logical_status)]
    /\ UNCHANGED <<now, store, engine, tables, loc, ticks, runs>>

NextClassify == ClassifyCall

SpecClassify == InitClassify /\ [][NextClassify]_vars

-----------------------------------------------------------------------------
(* Properties of the classifier *)

Known(x) == x # NULL
OrZero(x) == IF Known(x) THEN x ELSE 0
PreviousOrStandby(prev) == IF prev \in allowed_status THEN prev ELSE "S"

\* the rule as the specification words it, on the differences of the temperatures
FirstMatchingRule(power, flow, inlet, outlet, ambient, prev) ==
    IF power > HPWORK /\ flow > 0
    THEN IF Known(inlet) /\ Known(outlet) /\ inlet - outlet > HPDT THEN "H"
         ELSE IF Known(inlet) /\ Known(outlet) /\ outlet - inlet > HPDT
              THEN IF Known(ambient) /\ ambient < HPAMB THEN "D" ELSE "C"
              ELSE PreviousOrStandby(prev)
    ELSE IF power > HPWORKMIN /\ flow > HPFLOW THEN PreviousOrStandby(prev)
    ELSE "S"

\* C1: compute_logical_status returns the output of the first matching rule:
\* (1) power above 300 W with flow above 0 gives Heating when inlet - outlet is
\* above 0.02, otherwise Defrost (ambient known and below 20) or Cooling when
\* outlet - inlet is above 0.02, otherwise the previous mode, Standby if there
\* is none; (2) power above 90 W with flow above 0.2 gives the previous mode or
\* Standby; (3) Standby.  Absent power or flow counts as 0.
C1_FirstMatchingRule ==
    call.op = "compute_logical_status" =>
        call.result = FirstMatchingRule(OrZero(store.em_activepower),
                                        OrZero(store.hm_activeflow_m3h),
                                        store.hm_temp_IN, store.hm_temp_OUT,
                                        store.ts_ambient_temp, last_logical_status)

\* a high-power snapshot inside the temperature dead band keeps Defrost
C1_Witness ==
    /\ call.op = "compute_logical_status"
    /\ store.em_activepower > HPWORK
    /\ store.hm_activeflow_m3h > 0
    /\ store.hm_temp_IN = store.hm_temp_OUT + HPDT
    /\ last_logical_status = "D"
    /\ call.result = "D"

-----------------------------------------------------------------------------
(* Properties of the write engine, stated on the steps of Tick *)

TickStep      == ticks' = ticks + 1
ProcessedTick == TickStep /\ ~IsEmpty(store)
Classified    == compute_logical_status(store, last_logical_status)
Elapsed       == now' - last_save_time
Dwell(status) == IF status = "S" THEN YSEC ELSE ZSEC
TickRow(status) == SampleRow(store, status, now')
AddsExactly(rows) == hp_samples' = hp_samples \cup rows /\ rows \cap hp_samples = {}

\* C2 as worded: after the first write of a run, on a tick whose status equals
\* last_status_stored, a Sample is written if and only if the time since
\* last_save_time has exceeded the dwell interval (300 s for Standby, 10 s
\* otherwise).
C2_WritesOnlyPastDwell ==
    [][(ProcessedTick /\ first_saved /\ Classified = last_status_stored) =>
         IF Elapsed > Dwell(last_status_stored)
         THEN AddsExactly({TickRow(Classified)})
         ELSE hp_samples' = hp_samples]_vars

\* C2, amended: after the first write of a run, on a tick whose status equals
\* last_status_stored, exactly one Sample is written when the time since
\* last_save_time is at least the dwell interval (300 s for Standby, 10 s
\* otherwise), and none is written when it is less.
C2_WritesFromDwell ==
    [][(ProcessedTick /\ first_saved /\ Classified = last_status_stored) =>
         IF Elapsed >= Dwell(last_status_stored)
         THEN AddsExactly({TickRow(Classified)})
         ELSE hp_samples' = hp_samples]_vars

\* a Standby sample written by the dwell rule, not by a change of status
C2_Witness ==
    /\ loc.processed /\ loc.should_write /\ ~loc.status_changed
    /\ loc.status_to_store = "S"
    /\ last_save_time = now
    /\ \E r \in hp_samples : r.ts_utc_s = now /\ r.status = "S"
    /\ \E r \in hp_samples : r.ts_utc_s = now - YSEC /\ r.status = "S"

\* C3: after the first write of a run, every tick whose classified status
\* differs from last_status_stored writes a Sample with the new status at the
\* tick's timestamp, whatever time has elapsed, and last_status_stored is the
\* status written afterwards.
C3_ChangeWritesAtOnce ==
    [][(ProcessedTick /\ first_saved /\ Classified # last_status_stored) =>
         /\ TickRow(Classified) \in hp_samples'
         /\ last_status_stored' = Classified
         /\ last_save_time' = now']_vars

\* a change written XSEC seconds after the previous write
C3_Witness ==
    /\ loc.processed /\ loc.should_write /\ loc.status_changed /\ ~loc.bridged
    /\ loc.status_to_store \in allowed_status
    /\ last_status_stored = loc.status_to_store
    /\ \E r \in hp_samples : r.ts_utc_s = now /\ r.status = loc.status_to_store
    /\ \E r \in hp_samples : /\ r.ts_utc_s = now - XSEC
                             /\ r.status \in allowed_status \ {loc.status_to_store}

OnSamples(samples) == {r \in samples : r.status = "ON"}

\* C4: the first tick of a run that sees a non-empty snapshot writes a Sample,
\* with status ON, whatever the classifier returned; a tick on an empty
\* snapshot writes nothing; no later tick of the run writes an ON Sample.
C4_FirstWriteIsOn ==
    [][/\ (TickStep /\ IsEmpty(store)) => UNCHANGED <<hp_samples, first_saved>>
       /\ (ProcessedTick /\ ~first_saved) =>
             /\ AddsExactly({TickRow("ON")})
             /\ first_saved'
       /\ (ProcessedTick /\ first_saved) =>
             /\ OnSamples(hp_samples') = OnSamples(hp_samples)
             /\ first_saved']_vars

\* a run that wrote ON while the classifier said Heating, and then wrote Heating
C4_Witness ==
    /\ first_saved /\ loc.should_write /\ loc.status_to_store = "H"
    /\ \E r \in hp_samples : /\ r.status = "ON"
                             /\ r.ts_utc_s = now - XSEC
                             /\ r.em_activepower > HPWORK
    /\ \E r \in hp_samples : r.status = "H" /\ r.ts_utc_s = now

-----------------------------------------------------------------------------
(* The offline gap recorded by the first write of a run *)

\* the first write of a run that finds an earlier non-boundary sample
BackfillTick ==
    /\ ProcessedTick /\ ~first_saved
    /\ LastNonBoundary(hp_samples) # NULL
    /\ LastNonBoundary(hp_samples) < now'

OffRows(daytab, day) == {r \in daytab : r.day_date = day /\ r.status = "OFF"}

\* the one OFF row a day carries for the gap [t0, t1]
GapRow(day, t0, t1) ==
    [day_date        |-> day,
     day_start_utc_s |-> DayStartUtc(day),
     status          |-> "OFF",
     start_ts_utc_s  |-> Max(t0, DayStartUtc(day)),
     end_ts_utc_s    |-> Min(t1, DayStartUtc(day) + DaySec),
     total_time_s    |-> Min(t1, DayStartUtc(day) + DaySec) - Max(t0, DayStartUtc(day)),
     consumption_kw  |-> NULL,
     hp_temp_in      |-> NULL]

\* the OFF time of a day is in the month, year and all-time tables
OffRolledUp(daytab, monthtab, yeartab, totaltab, day) ==
    LET dt == DateOf(day)
        D  == OffRows(daytab, day)
        M  == {r \in monthtab : r.year = dt.year /\ r.month = dt.month /\ r.status = "OFF"}
        Y  == {r \in yeartab : r.year = dt.year /\ r.status = "OFF"}
    IN  /\ \E m \in M : /\ m.day = dt.day
                        /\ m.total_time_s = SumSet([r \in D |-> r.total_time_s], D)
                        /\ m.times_a_day = Cardinality(D)
        /\ \E y \in Y : /\ y.month = dt.month
                        /\ y.total_time_s = SumSet([r \in M |-> r.total_time_s], M)
        /\ \E t \in totaltab : /\ t.year = dt.year /\ t.status = "OFF"
                               /\ t.total_time_s = SumSet([r \in Y |-> r.total_time_s], Y)

\* the gap [t0, t1] is in the tables as OFF rows, one for each day of days
GapStored(days, t0, t1) ==
    /\ \A d \in days :
          /\ OffRows(day_summary', d) = {GapRow(d, t0, t1)}
          /\ OffRolledUp(day_summary', month_summary', year_summary', total_summary', d)
    /\ LET O == UNION {OffRows(day_summary', d) : d \in days}
       IN  SumSet([r \in O |-> r.total_time_s], O) = t1 - t0

\* C5 as worded: at the first write of a run at t1, with the latest
\* non-boundary sample at t0 < t1, DaySegment holds one OFF segment for each
\* local day touched by [t0, t1], split at the local midnights, starting at t0,
\* ending at t1, the durations adding up to t1 - t0, and every day touched is
\* rolled up into the month, year and all-time tables.
C5_OffPerDayTouched ==
    [][BackfillTick =>
         GapStored(LocalDay(LastNonBoundary(hp_samples)) .. LocalDay(now'),
                   LastNonBoundary(hp_samples), now')]_vars

\* C5, amended: the OFF segments are one for each local day that [t0, t1]
\* overlaps for more than an instant: a day that begins exactly at t1 gets no
\* segment and no roll-up from the gap.
C5_OffPerDayOverlapped ==
    [][BackfillTick =>
         GapStored({d \in LocalDay(LastNonBoundary(hp_samples)) .. LocalDay(now') :
                       DayStartUtc(d) < now'},
                   LastNonBoundary(hp_samples), now')]_vars

\* a gap over a midnight, stored as two OFF rows on two days
C5_Witness ==
    /\ runs = 2 /\ first_saved /\ loc.processed /\ loc.should_write
    /\ loc.pending_offline # NULL
    /\ LocalDay(loc.pending_offline) < LocalDay(now)
    /\ Cardinality({r.day_date : r \in {q \in day_summary : q.status = "OFF"}}) >= 2
    /\ Cardinality(offline_segments) >= 2

-----------------------------------------------------------------------------
(* The bridging sample *)

\* the conditions of the bridging insert, on the state a tick starts in
BridgeCase ==
    /\ first_saved
    /\ last_status_stored = "S"
    /\ Classified # "S"
    /\ Elapsed > XSEC
    /\ last_read_data # EmptyStore

\* C6: a tick that writes inserts, before the new Sample, a Sample with the
\* previous read's data, status Standby and the previous read's timestamp
\* exactly when the run has written before, the stored status is Standby, the
\* new status is not, more than 5 s have passed since the last write and a
\* last-read snapshot exists; no other tick inserts anything but its own Sample.
C6_BridgeExactlyWhen ==
    [][TickStep =>
         IF ~ProcessedTick \/ \A r \in hp_samples' : r.ts_utc_s # now'
         THEN hp_samples' = hp_samples
         ELSE IF BridgeCase
              THEN /\ last_read_ts_utc_s < now'
                   /\ hp_samples' = hp_samples \cup
                          {SampleRow(last_read_data, "S", last_read_ts_utc_s),
                           TickRow(Classified)}
              ELSE hp_samples' = hp_samples \cup
                       {TickRow(IF first_saved THEN Classified ELSE "ON")}]_vars

\* a bridging sample that no tick had written: ON, Standby, a read that is
\* not written, then Heating with the read before it as a Standby sample
C6_Witness ==
    /\ loc.processed /\ loc.should_write /\ loc.bridged
    /\ loc.status_to_store = "H"
    /\ Cardinality(hp_samples) = 4
    /\ \E r \in hp_samples : r.status = "S" /\ r.ts_utc_s = last_save_time - XSEC

-----------------------------------------------------------------------------
(* The segments of the day the engine has just rebuilt *)

\* the last tick wrote a changed status: today was rebuilt after the insert,
\* and nothing has touched the tables since
FreshToday == loc.processed /\ loc.should_write /\ loc.status_changed
Today      == LocalDay(loc.ts_now_utc_s)

SamplesOfDay(day) == OrderByTs({r \in hp_samples : LocalDay(r.ts_utc_s) = day})
SegmentsOfDay(day) == {r \in day_summary : r.day_date = day}

\* rows[i] .. rows[j] is a maximal run of one S/H/C/D status that row j + 1 ends
ClosedRun(rows, i, j) ==
    /\ i <= j /\ j < Len(rows)
    /\ rows[i].status \in allowed_status
    /\ \A k \in i .. j : rows[k].status = rows[i].status
    /\ i > 1 => rows[i - 1].status # rows[i].status
    /\ rows[j + 1].status # rows[i].status

\* C7: a run of rows of one S/H/C/D status followed by a row of another status
\* (or an ON/OFF row) gives a DaySegment that starts at the run's first row and
\* ends at the closing row's timestamp, its energy the difference between the
\* two rows; a single row followed by a differing row gives a segment too.
C7_SegmentEndsAtClosingRow ==
    FreshToday =>
        LET rows == SamplesOfDay(Today)
        IN  \A i \in 1 .. Len(rows) : \A j \in i .. Len(rows) :
                ClosedRun(rows, i, j) =>
                    \E seg \in SegmentsOfDay(Today) :
                        /\ seg.status = rows[i].status
                        /\ seg.start_ts_utc_s = rows[i].ts_utc_s
                        /\ seg.end_ts_utc_s = rows[j + 1].ts_utc_s
                        /\ seg.total_time_s = rows[j + 1].ts_utc_s - rows[i].ts_utc_s
                        /\ seg.consumption_kw =
                               rows[j + 1].em_total_fwd - rows[i].em_total_fwd

Abs(x) == IF x < 0 THEN 0 - x ELSE x

\* C8: for a day whose samples hold no ON/OFF row, the durations of the day's
\* DaySegments add up to the time from the day's first sample to its last,
\* within 5 s.
C8_DurationsCoverTheDay ==
    (FreshToday /\ \A r \in {q \in hp_samples : LocalDay(q.ts_utc_s) = Today} :
                      r.status \notin Boundary) =>
        LET rows == SamplesOfDay(Today)
            segs == SegmentsOfDay(Today)
        IN  Abs(SumSet([r \in segs |-> r.total_time_s], segs)
                - (rows[Len(rows)].ts_utc_s - rows[1].ts_utc_s)) <= XSEC

\* the day's rows are Standby, then Heating from row a on, then Standby from
\* row b on (the run's ON row may come first)
StandbyHeatingStandby(rows, a, b) ==
    /\ 1 < a /\ a < b /\ b <= Len(rows)
    /\ \A k \in 1 .. a - 1 : rows[k].status = "S" \/ (k = 1 /\ rows[k].status = "ON")
    /\ rows[a - 1].status = "S"
    /\ \A k \in a .. b - 1 : rows[k].status = "H"
    /\ \A k \in b .. Len(rows) : rows[k].status = "S"

\* C9: when, within one local day and one run, the ticks classify Standby,
\* then Heating for a stretch, then Standby again, the rebuilt day holds
\* exactly one Heating DaySegment, which starts at the first Heating sample
\* and lasts up to the Standby sample that ends the stretch.
C9_OneHeatingSegment ==
    (FreshToday /\ runs = 1) =>
        LET rows == SamplesOfDay(Today)
        IN  \A a \in 1 .. Len(rows) : \A b \in 1 .. Len(rows) :
                StandbyHeatingStandby(rows, a, b) =>
                    \E seg \in SegmentsOfDay(Today) :
                        /\ {r \in SegmentsOfDay(Today) : r.status = "H"} = {seg}
                        /\ seg.start_ts_utc_s = rows[a].ts_utc_s
                        /\ seg.total_time_s = rows[b].ts_utc_s - rows[a].ts_utc_s

-----------------------------------------------------------------------------
(* The day rebuild on its own: build_day_summary_for_date called on a       *)
(* database whose day_summary was left by an earlier rebuild of the day,    *)
(* made when hp_samples and offline_segments were different.                *)

RebuiltDay == LocalDay(T0) + 1

\* the timestamps of the samples of the day, and what each sample carries
SampleTimes == {DayStartUtc(RebuiltDay) + 10, DayStartUtc(RebuiltDay) + 20,
                DayStartUtc(RebuiltDay) + 30}

SampleAt(ts, status) ==
    SampleRow([EmptyStore EXCEPT !.em_total_fwd = 100 + (ts - DayStartUtc(RebuiltDay)),
                                 !.hm_temp_IN = 4500],
              status, ts)

\* every table of samples with at most one row per timestamp
SampleTables ==
    {{SampleAt(ts, f[ts]) : ts \in {t \in SampleTimes : f[t] # NoStatus}} :
        f \in [SampleTimes -> {NoStatus, "ON", "S", "H"}]}

\* the OFF intervals a run may hold for the day
OfflineChoices ==
    {{}, {[day |-> RebuiltDay, seg_start |-> DayStartUtc(RebuiltDay),
           seg_end |-> DayStartUtc(RebuiltDay) + 10]}}

InitRebuild ==
    /\ now = DayStartUtc(RebuiltDay) + 40
    /\ store = EmptyStore
    /\ first_saved = FALSE
    /\ last_logical_status = NoStatus
    /\ last_status_stored = NoStatus
    /\ last_save_time = 0
    /\ current_day_local = RebuiltDay
    /\ last_read_data = EmptyStore
    /\ last_read_ts_utc_s = NULL
    /\ offline_segments \in OfflineChoices
    /\ loc = NoLoc
    /\ hp_samples \in SampleTables
    /\ \E earlier \in SampleTables : \E off \in OfflineChoices :
           day_summary = build_day_summary_for_date(earlier, {}, off, RebuiltDay)
    /\ month_summary = {}
    /\ year_summary = {}
    /\ total_summary = {}
    /\ ticks = 0
    /\ runs = 1
    /\ call = NoCall

\* self.build_day_summary_for_date(day_local)
RebuildCall(day) ==
    /\ call' = [op |-> "build_day_summary_for_date", day |-> day, before |-> day_summary]
    /\ day_summary' = build_day_summary_for_date(hp_samples, day_summary,
                                                 offline_segments, day)
    /\ UNCHANGED <<now, store, engine, hp_samples, month_summary, year_summary,
                   total_summary, loc, ticks, runs>>

NextRebuild == \E day \in {RebuiltDay} : RebuildCall(day)

SpecRebuild == InitRebuild /\ [][NextRebuild]_vars

\* C10: rebuilding a day twice over the same Samples and OFF segments leaves
\* the same DaySegments as rebuilding it once; the rows an earlier rebuild of
\* the day left neither survive nor alter the result, which is what the
\* rebuild of an empty table gives; the rows of other days stay.
C10_RebuildIdempotent ==
    call.op = "build_day_summary_for_date" =>
        /\ build_day_summary_for_date(hp_samples, day_summary, offline_segments,
                                      call.day) = day_summary
        /\ {r \in day_summary : r.day_date = call.day}
               = build_day_summary_for_date(hp_samples, {}, offline_segments, call.day)
        /\ {r \in day_summary : r.day_date # call.day}
               = {r \in call.before : r.day_date # call.day}

\* a rebuild that dropped a row of the earlier rebuild and kept another day's
\* worth of new rows
C10_Witness ==
    /\ call.op = "build_day_summary_for_date"
    /\ \E r \in call.before : r.day_date = call.day /\ r \notin day_summary
    /\ \E r \in day_summary : r.day_date = call.day /\ r \notin call.before

-----------------------------------------------------------------------------
(* The roll-up tables against the level below *)

\* the rows of each level that a row of the level above covers
DayRowsOf(m)   == {r \in day_summary : /\ DateOf(r.day_date).year = m.year
                                       /\ DateOf(r.day_date).month = m.month
                                       /\ DateOf(r.day_date).day = m.day
                                       /\ r.status = m.status}
MonthRowsOf(y) == {r \in month_summary : r.year = y.year /\ r.month = y.month
                                         /\ r.status = y.status}
YearRowsOf(t)  == {r \in year_summary : r.year = t.year /\ r.status = t.status}

Duration(G) == SumSet([r \in G |-> r.total_time_s], G)

\* C11: whenever an engine tick has completed, for every status other than ON
\* the duration of each level is the sum of the level below: a month-day row
\* sums the day's segments of its status, a year-month row the month-day rows
\* of its month, a total row the year-month rows of its year; and every row
\* of a level is covered by a row of the level above.
C11_RollupConsistent ==
    /\ \A m \in month_summary : m.status # "ON" => m.total_time_s = Duration(DayRowsOf(m))
    /\ \A y \in year_summary  : y.status # "ON" => y.total_time_s = Duration(MonthRowsOf(y))
    /\ \A t \in total_summary : t.status # "ON" => t.total_time_s = Duration(YearRowsOf(t))
    /\ \A r \in day_summary   : \E m \in month_summary : r \in DayRowsOf(m)
    /\ \A r \in month_summary : \E y \in year_summary : r \in MonthRowsOf(y)
    /\ \A r \in year_summary  : \E t \in total_summary : r \in YearRowsOf(t)

\* an offline gap over two days of one month: the year-month row adds up two
\* month-day rows
C11_Witness ==
    \E y \in year_summary :
        /\ y.status = "OFF"
        /\ Cardinality({m \in MonthRowsOf(y) : m.total_time_s > 0}) >= 2
        /\ y.total_time_s > DaySec

-----------------------------------------------------------------------------
(* The roll-up on its own: update_month_year_total_for_day called on a      *)
(* day_summary whose segments carry a value or NULL in their fields.        *)

RollupDays == {LocalDay(T0) + 1, LocalDay(T0) + 2}

\* a row of day_summary as _store_day_segment and the ON insert leave it
SegmentRow(day, status, offset, duration, consumption, temp_in) ==
    [day_date        |-> day,
     day_start_utc_s |-> DayStartUtc(day),
     status          |-> status,
     start_ts_utc_s  |-> DayStartUtc(day) + offset,
     end_ts_utc_s    |-> DayStartUtc(day) + offset + duration,
     total_time_s    |-> duration,
     consumption_kw  |-> consumption,
     hp_temp_in      |-> temp_in]

\* a Heating segment in a slot of a day, or none: with or without an inlet
\* temperature, with or without an energy delta
SlotChoices(day, offset, duration) ==
    {{}} \cup {{SegmentRow(day, "H", offset, duration, c, t)} :
                  c \in {NULL, 5}, t \in {NULL, 4000, 5000}}

\* no, one or two ON rows in a day
OnChoices(day, offsets) ==
    {{SegmentRow(day, "ON", o, 0, NULL, 4500) : o \in O} : O \in SUBSET offsets}

DayTables ==
    {a \cup b \cup c \cup on1 \cup on2 :
        a \in SlotChoices(LocalDay(T0) + 1, 100, 100),
        b \in SlotChoices(LocalDay(T0) + 1, 300, 300),
        c \in SlotChoices(LocalDay(T0) + 2, 100, 200),
        on1 \in OnChoices(LocalDay(T0) + 1, {50, 250}),
        on2 \in OnChoices(LocalDay(T0) + 2, {50})}

InitRollup ==
    /\ now = DayStartUtc(LocalDay(T0) + 3) - XSEC
    /\ store = EmptyStore
    /\ first_saved = FALSE
    /\ last_logical_status = NoStatus
    /\ last_status_stored = NoStatus
    /\ last_save_time = 0
    /\ current_day_local = LocalDay(T0) + 2
    /\ last_read_data = EmptyStore
    /\ last_read_ts_utc_s = NULL
    /\ offline_segments = {}
    /\ loc = NoLoc
    /\ hp_samples = {}
    /\ day_summary \in DayTables
    /\ month_summary = {}
    /\ year_summary = {}
    /\ total_summary = {}
    /\ ticks = 0
    /\ runs = 1
    /\ call = NoCall

\* the days rolled up so far by direct calls
RolledUp == IF call.op = "update_month_year_total_for_day" THEN call.days ELSE {}

\* self.update_month_year_total_for_day(day_local)
RollupCall(day) ==
    /\ call' = [op |-> "update_month_year_total_for_day", days |-> RolledUp \cup {day}]
    /\ SetTables(update_month_year_total_for_day(Db, day))
    /\ UNCHANGED <<now, store, engine, loc, ticks, runs>>

NextRollup == \E day \in RollupDays : RollupCall(day)

SpecRollup == InitRollup /\ [][NextRollup]_vars


\* the duration-weighted average of hp_temp_in over the rows of G that have a
\* value: NULL when none has one or their durations add up to zero
AverageOverValued(G) ==
    LET valued == {r \in G : r.hp_temp_in # NULL}
    IN  IF valued = {} \/ Duration(valued) = 0 THEN NULL
        ELSE RoundDiv(SumSet([r \in valued |-> r.hp_temp_in * r.total_time_s], valued),
                      Duration(valued))

\* C12: in every roll-up (month from day, year from month, total from year)
\* the duration-weighted average of a field is the sum of value x duration
\* over the sum of duration, both taken over the source rows whose value is
\* not null only; it is null when no source row has a value or the total
\* duration is zero.
C12_AverageExcludesNullRows ==
    /\ \A m \in month_summary : m.hp_temp_in = AverageOverValued(DayRowsOf(m))
    /\ \A y \in year_summary  : y.hp_temp_in = AverageOverValued(MonthRowsOf(y))
    /\ \A t \in total_summary : t.hp_temp_in = AverageOverValued(YearRowsOf(t))

-----------------------------------------------------------------------------
(* One segment on its own: _store_day_segment called on rows whose fields   *)
(* are present or NULL, for every pair of indices.                          *)

SegmentDay == LocalDay(T0) + 1

\* what the meters read at each timestamp of the day, when they read at all
ReadingAt == [k \in 1 .. 3 |-> [ts_utc_s     |-> DayStartUtc(SegmentDay) + 10 * k,
                                em_total_fwd |-> 100 + 10 * k * k,
                                hm_temp_IN   |-> 4500 + 101 * (k - 1)]]

\* a sample of each timestamp: its status, and whether each meter had answered
SegmentSamples ==
    {{SampleRow([EmptyStore EXCEPT
                    !.em_total_fwd = IF e[k] THEN ReadingAt[k].em_total_fwd ELSE NULL,
                    !.hm_temp_IN   = IF t[k] THEN ReadingAt[k].hm_temp_IN ELSE NULL],
                st[k], ReadingAt[k].ts_utc_s) : k \in 1 .. 3} :
        st \in [1 .. 3 -> {"ON", "S", "H"}],
        e \in [1 .. 3 -> BOOLEAN], t \in [1 .. 3 -> BOOLEAN]}

InitSegment ==
    /\ now = DayStartUtc(SegmentDay) + 40
    /\ store = EmptyStore
    /\ first_saved = FALSE
    /\ last_logical_status = NoStatus
    /\ last_status_stored = NoStatus
    /\ last_save_time = 0
    /\ current_day_local = SegmentDay
    /\ last_read_data = EmptyStore
    /\ last_read_ts_utc_s = NULL
    /\ offline_segments = {}
    /\ loc = NoLoc
    /\ hp_samples \in SegmentSamples
    /\ day_summary = {}
    /\ month_summary = {}
    /\ year_summary = {}
    /\ total_summary = {}
    /\ ticks = 0
    /\ runs = 1
    /\ call = NoCall

\* self._store_day_segment(cur, day_str, start_utc_s, rows, i_start, i_end)
SegmentCall(i_start, i_end) ==
    /\ call.op = "none"
    /\ call' = [op |-> "_store_day_segment", i_start |-> i_start, i_end |-> i_end]
    /\ day_summary' = _store_day_segment(day_summary, SegmentDay, DayStartUtc(SegmentDay),
                                         OrderByTs(hp_samples), i_start, i_end)
    /\ UNCHANGED <<now, store, engine, hp_samples, month_summary, year_summary,
                   total_summary, loc, ticks, runs>>

NextSegment == \E i_start \in 1 .. 3 : \E i_end \in i_start .. 3 : SegmentCall(i_start, i_end)

SpecSegment == InitSegment /\ [][NextSegment]_vars

\* the rows i_start .. i_end that carry the first row's status and a temperature
OwnValued(rows, i_start, i_end) ==
    {k \in i_start .. i_end : /\ rows[k].status = rows[i_start].status
                              /\ rows[k].hm_temp_IN # NULL}

\* C13: in a DaySegment an averaged field is the arithmetic mean over the rows
\* of the run that have the segment's own status and a value, and is null
\* (never zero) when there is no such row; an energy delta is null when the
\* cumulative field is null at either end of the segment.
C13_NullPropagation ==
    call.op = "_store_day_segment" =>
        \A seg \in day_summary :
            LET rows == OrderByTs(hp_samples)
                own  == OwnValued(rows, call.i_start, call.i_end)
            IN  /\ seg.hp_temp_in =
                       IF own = {} THEN NULL
                       ELSE RoundDiv(SumSet([k \in own |-> rows[k].hm_temp_IN], own),
                                     Cardinality(own))
                /\ own = {} => seg.hp_temp_in # 0
                /\ seg.consumption_kw =
                       IF rows[call.i_start].em_total_fwd = NULL
                          \/ rows[call.i_end].em_total_fwd = NULL
                       THEN NULL
                       ELSE rows[call.i_end].em_total_fwd - rows[call.i_start].em_total_fwd

\* a segment closed by a row of another status: the mean leaves that row and
\* the row without a temperature out, and the energy delta is null
C13_Witness ==
    /\ call.op = "_store_day_segment" /\ call.i_start = 1 /\ call.i_end = 3
    /\ \E seg \in day_summary : seg.hp_temp_in = 4500 /\ seg.consumption_kw = NULL
    /\ \E r \in hp_samples : r.status = "H" /\ r.hm_temp_IN # NULL
    /\ \E r \in hp_samples : r.status = "S" /\ r.hm_temp_IN = NULL
    /\ \E r \in hp_samples : r.status = "S" /\ r.hm_temp_IN = 4500

-----------------------------------------------------------------------------
(* ON marker segments of a rebuilt day *)

OnSamplesOfDay(day) == {r \in hp_samples : r.status = "ON" /\ LocalDay(r.ts_utc_s) = day}

OnSegmentsOfDay(day) == {seg \in day_summary : seg.day_date = day /\ seg.status = "ON"}

\* C14: after a rebuild of a day every ON Sample of the day has its own ON
\* DaySegment: as many ON segments as ON samples, each of duration 0, ending
\* at the ON sample and starting at the most recent non-boundary sample
\* before it (at the ON sample itself when there is none).
C14_EveryOnSampleHasItsSegment ==
    call.op = "build_day_summary_for_date" =>
        /\ Cardinality(OnSegmentsOfDay(call.day)) = Cardinality(OnSamplesOfDay(call.day))
        /\ \A r \in OnSamplesOfDay(call.day) :
               \E seg \in OnSegmentsOfDay(call.day) :
                   LET prev == LastNonBoundaryBefore(hp_samples, r.ts_utc_s)
                   IN  /\ seg.end_ts_utc_s = r.ts_utc_s
                       /\ seg.total_time_s = 0
                       /\ seg.start_ts_utc_s = IF prev # NULL THEN prev ELSE r.ts_utc_s

-----------------------------------------------------------------------------
(* ON rows of the roll-up tables *)

\* the ON DaySegments of the rolled-up days of a year, of a month, of a date
OnSegmentsOfYear(year) ==
    {r \in day_summary : r.status = "ON" /\ r.day_date \in RolledUp /\ DateOf(r.day_date).year = year}

OnSegmentsOfMonth(year, month) == {r \in OnSegmentsOfYear(year) : DateOf(r.day_date).month = month}

OnSegmentsOfDate(year, month, day) == {r \in OnSegmentsOfMonth(year, month) : DateOf(r.day_date).day = day}

\* no duration, no energy delta, no average
OnlyAnEvent(r) == r.total_time_s = 0 /\ r.consumption_kw = NULL /\ r.hp_temp_in = NULL

\* C15: at every roll-up level a row with status ON has duration 0, null
\* energy deltas and null averages, and its event count is the number of ON
\* DaySegments of the period it covers: the day, the month, the year.
C15_OnRowsCountEvents ==
    /\ \A m \in month_summary : m.status = "ON" =>
          /\ OnlyAnEvent(m)
          /\ m.times_a_day = Cardinality(OnSegmentsOfDate(m.year, m.month, m.day))
    /\ \A y \in year_summary : y.status = "ON" =>
          /\ OnlyAnEvent(y)
          /\ y.times_a_month = Cardinality(OnSegmentsOfMonth(y.year, y.month))
    /\ \A t \in total_summary : t.status = "ON" =>
          /\ OnlyAnEvent(t)
          /\ t.times_a_year = Cardinality(OnSegmentsOfYear(t.year))

\* both days rolled up: two ON events on one day, a third on the other
C15_Witness ==
    /\ RolledUp = RollupDays
    /\ \E m \in month_summary : m.status = "ON" /\ m.times_a_day = 2
    /\ \E y \in year_summary : y.status = "ON" /\ y.times_a_month = 3
    /\ \E t \in total_summary : t.status = "ON" /\ t.times_a_year = 3
    /\ \E r \in day_summary : r.status = "ON" /\ r.hp_temp_in # NULL

-----------------------------------------------------------------------------
(* Segments of one status within a day *)

\* two intervals that share at most an endpoint
Apart(a, b) == a.end_ts_utc_s <= b.start_ts_utc_s \/ b.end_ts_utc_s <= a.start_ts_utc_s

-----------------------------------------------------------------------------
(* The rows a day's segmentation reads *)

\* C17: the segmentation of a local day uses exactly the Samples with local
\* midnight <= timestamp < next local midnight, so a Sample at the next local
\* midnight is not part of the day: every segment built from Samples ends at
\* a Sample of its own day, and no Sample ends segments of two days.
C17_DayRangeHalfOpen ==
    \A seg \in day_summary :
        seg.status # "OFF" => LocalDay(seg.end_ts_utc_s) = seg.day_date

-----------------------------------------------------------------------------
(* The Sample table under its timestamp key *)

Timestamps(samples) == {r.ts_utc_s : r \in samples}

\* C18: the Sample table holds at most one row per timestamp after any
\* sequence of ticks, bridging inserts and restarts, and within one run no
\* existing row is replaced by a row of another status or other values: the
\* current sample always goes to a new timestamp, and a bridging insert that
\* meets a timestamp already present rewrites the identical Standby row.
C18_OneSamplePerTimestamp ==
    [][/\ \A r, q \in hp_samples' : r.ts_utc_s = q.ts_utc_s => r = q
       /\ runs' = runs => hp_samples \subseteq hp_samples'
       /\ (ProcessedTick /\ loc'.should_write) =>
             /\ now' \notin Timestamps(hp_samples)
             /\ (loc'.bridged /\ last_read_ts_utc_s \in Timestamps(hp_samples)) =>
                   SampleRow(last_read_data, "S", last_read_ts_utc_s) \in hp_samples]_vars

\* Standby was written, and 295 s later a tick of another status bridges
\* with the read of that very write: the bridging insert adds no row
C18_Witness ==
    /\ loc.processed /\ loc.bridged
    /\ last_save_time - XSEC \notin Timestamps(hp_samples)
    /\ \E r \in hp_samples : r.status = "S" /\ r.ts_utc_s = last_save_time - 295
    /\ \A r \in hp_samples :
           r.ts_utc_s < last_save_time => r.ts_utc_s <= last_save_time - 295

-----------------------------------------------------------------------------
(* DataStore under its four callers.  update holds the lock while            *)
(* dict.update merges the keys of partial one at a time and the copy is      *)
(* taken; snapshot holds it while the copy is taken.                         *)

\* the partials the threads pass to STORE.update
StoreWrites ==
    {[by |-> "BusReader", partial |-> [em_activepower |-> 400]]}
    \cup {[by |-> "BusReader",
           partial |-> [ts_ambient_humidity |-> 4000 + 100 * k, ts_ambient_temp |-> 2000 + 100 * k]] :
            k \in 1 .. 2}
    \cup {[by |-> "HeatReader", partial |-> [hm_activeflow_m3h |-> f, hm_flow_m3h |-> f]] :
            f \in {50, 60}}
    \cup {[by |-> "DBWriterSQLite", partial |-> [last_ts_utc_s |-> T0, status |-> "ON"]]}

\* the threads that call STORE.snapshot
SnapshotCallers == {"DBWriterSQLite", "UI"}

InitStore ==
    /\ now = T0
    /\ store = EmptyStore
    /\ first_saved = FALSE
    /\ last_logical_status = NoStatus
    /\ last_status_stored = NoStatus
    /\ last_save_time = 0
    /\ current_day_local = LocalDay(T0)
    /\ last_read_data = EmptyStore
    /\ last_read_ts_utc_s = NULL
    /\ offline_segments = {}
    /\ loc = NoCall
    /\ hp_samples = {}
    /\ day_summary = {}
    /\ month_summary = {}
    /\ year_summary = {}
    /\ total_summary = {}
    /\ ticks = 0
    /\ runs = 1
    /\ call = NoCall

\* update: "with self._lock:" entered
UpdateEnter(w) ==
    /\ Unlocked(call)
    /\ call' = [op |-> "update", by |-> w.by, partial |-> w.partial,
                left |-> DOMAIN w.partial, before |-> store]
    /\ UNCHANGED <<now, store, engine, tables, loc, ticks, runs>>

\* update: self._d.update(partial) sets one more key
UpdateMerge(k) ==
    /\ call.op = "update"
    /\ k \in call.left
    /\ store' = StoreUpdate(store, [j \in {k} |-> call.partial[j]])
    /\ call' = [call EXCEPT !.left = @ \ {k}]
    /\ UNCHANGED <<now, engine, tables, loc, ticks, runs>>

\* update: return self._d.copy(), and the lock is released
UpdateReturn ==
    /\ call.op = "update"
    /\ call.left = {}
    /\ loc' = [op |-> "update", by |-> call.by, result |-> store]
    /\ call' = NoCall
    /\ UNCHANGED <<now, store, engine, tables, ticks, runs>>

\* snapshot: with self._lock: return self._d.copy()
Snapshot(t) ==
    /\ SnapshotEnabled(call)
    /\ loc' = [op |-> "snapshot", by |-> t, result |-> store]
    /\ UNCHANGED <<now, store, engine, tables, call, ticks, runs>>

NextStore ==
    \/ \E w \in StoreWrites : UpdateEnter(w)
    \/ \E k \in DOMAIN EmptyStore : UpdateMerge(k)
    \/ UpdateReturn
    \/ \E t \in SnapshotCallers : Snapshot(t)

SpecStore == InitStore /\ [][NextStore]_vars

\* the keys a mapping holds
KeysOf(d) == {k \in DOMAIN d : d[k] # EmptyStore[k]}

\* C19: update(partial) sets exactly the keys of partial to their new values,
\* whichever worker wrote them before, leaves every other key and value as it
\* was, removes no key, and returns the full mapping as it is after the
\* merge; the key set of the store never shrinks.
C19_UpdateMerges ==
    [][/\ (call.op = "update" /\ call'.op = "none") =>
             /\ \A k \in DOMAIN store' :
                    store'[k] = IF k \in DOMAIN call.partial THEN call.partial[k]
                                ELSE call.before[k]
             /\ loc'.op = "update" /\ loc'.result = store'
       /\ KeysOf(store) \subseteq KeysOf(store')]_vars

\* an update returned a mapping that holds the keys of all three writers,
\* with a key written for the second time
C19_Witness ==
    /\ loc.op = "update" /\ loc.by = "BusReader"
    /\ loc.result.ts_ambient_temp = 2200 /\ loc.result.ts_ambient_humidity = 4200
    /\ loc.result.em_activepower = 400
    /\ loc.result.hm_flow_m3h = 60
    /\ loc.result.status = "ON"
    /\ loc.result = store

\* the store as the last completed update left it
Committed == IF call.op = "update" THEN call.before ELSE store

\* C20: under every interleaving of the pollers, the engine and the UI, a
\* snapshot returns the store as some whole number of completed updates left
\* it, never part of a multi-key update: ts_ambient_humidity and
\* ts_ambient_temp come from the same read, and hm_activeflow_m3h and
\* hm_flow_m3h are both absent or equal.
C20_SnapshotNotTorn ==
    [][(loc' # loc /\ loc'.op = "snapshot") =>
          LET d == loc'.result
          IN  /\ d = Committed
              /\ d.hm_activeflow_m3h = d.hm_flow_m3h
              /\ \/ d.ts_ambient_humidity = NULL /\ d.ts_ambient_temp = NULL
                 \/ \E w \in StoreWrites :
                       /\ "ts_ambient_temp" \in DOMAIN w.partial
                       /\ d.ts_ambient_humidity = w.partial.ts_ambient_humidity
                       /\ d.ts_ambient_temp = w.partial.ts_ambient_temp]_vars

\* the UI holds a snapshot with both pairs while a later update has merged
\* one key of its pair and not yet the other
C20_Witness ==
    /\ loc.op = "snapshot" /\ loc.by = "UI"
    /\ loc.result.hm_flow_m3h = 50 /\ loc.result.ts_ambient_temp = 2100
    /\ call.op = "update" /\ Cardinality(call.left) = 1
    /\ store.hm_activeflow_m3h # store.hm_flow_m3h

-----------------------------------------------------------------------------
(* The three worker loops: the register reads of the pollers, one at a time, *)
(* and the running flags that closeEvent clears.  An iteration of           *)
(* DBWriterSQLite.run is its sleep and then the body that Tick models.       *)

Pollers == {"BusReader", "HeatReader"}
Workers == Pollers \cup {"DBWriterSQLite"}

\* the steps of one loop iteration: the register reads of a poller whose keys
\* the store of the model keeps; the sleep and the body of the engine
StepsOf == [w \in Workers |-> IF w \in Pollers THEN 3 ELSE 2]

\* bit k of a Python int, which behaves as an endless two's-complement word
Bit(x, k) == (x \div (2 ^ k)) % 2

\* x & m for a mask 0 <= m < 2^16, bit by bit from bit k up
RECURSIVE And16(_, _, _)
And16(x, m, k) ==
    IF k > 15 THEN 0 ELSE Bit(x, k) * Bit(m, k) * (2 ^ k) + And16(x, m, k + 1)

\* x | y for 0 <= x, y < 2^16, bit by bit from bit k up
RECURSIVE Or16(_, _, _)
Or16(x, y, k) ==
    IF k > 15 THEN 0
    ELSE (IF Bit(x, k) + Bit(y, k) > 0 THEN 2 ^ k ELSE 0) + Or16(x, y, k + 1)

\* a value below 2^32 as its two 16-bit halves <<high, low>>;
\* x << 16 for 0 <= x < 2^16
Shl16(x) == <<x, 0>>

\* u32 with the words taken in the other order
u32Halves_LoFirst(hi, lo) ==
    <<Or16(Shl16(And16(lo, 65535, 0))[1], 0, 0), Or16(Shl16(And16(lo, 65535, 0))[2], And16(hi, 65535, 0), 0)>>

\* ((hi & 0xFFFF) << 16) | (lo & 0xFFFF), as the two halves of the result
u32Halves(hi, lo) ==
    <<Or16(Shl16(And16(hi, 65535, 0))[1], 0, 0), Or16(Shl16(And16(hi, 65535, 0))[2], And16(lo, 65535, 0), 0)>>

\* u32 as a number
u32(hi, lo) == LET halves == u32Halves(hi, lo) IN halves[1] * 65536 + halves[2]

\* a conversion that leaves the word unsigned
i16_Unsigned(v) == v

\* v - 0x10000 if (v & 0x8000) else v
i16(v) == IF And16(v, 32768, 0) # 0 THEN v - 65536 ELSE v

\* what the device answers to each read when it answers
Registers ==
    [w \in Pollers |->
        IF w = "BusReader" THEN <<(<<0, 400>>), (<<1, 4464>>), (<<455, 65486>>)>>
        ELSE <<(<<0, 4500>>), (<<0, 4000>>), (<<0, 5049>>)>>]

\* how a read can end: the registers asked for, an exception, an error
\* response, no response, a response with fewer words than were asked for
Outcomes == {"registers", "exception", "isError", "None", "short"}

\* None where a list of registers is expected: as false as the empty list
NoRegs == <<>>

\* safe_regs_holding / safe_regs: rr.registers, or None
safe_regs(outcome, registers) ==
    IF outcome = "registers" THEN registers
    ELSE IF outcome = "short" THEN SubSeq(registers, 1, 1)
    ELSE NoRegs

\* regs[1] on a list of one word: IndexError, which nothing in run catches
Raises(regs) == regs # NoRegs /\ Len(regs) < 2

\* the partial a poller builds from the registers of its read number i
PartialOf(w, i, regs) ==
    IF w = "BusReader"
    THEN IF i = 1 THEN [em_activepower |-> u32(regs[1], regs[2])]
         ELSE IF i = 2 THEN [em_total_fwd |-> u32(regs[1], regs[2])]
         ELSE [ts_ambient_humidity |-> regs[1] * 10, ts_ambient_temp |-> i16(regs[2]) * 10]
    ELSE IF i = 1 THEN [hm_temp_IN |-> u32(regs[1], regs[2])]
         ELSE IF i = 2 THEN [hm_temp_OUT |-> u32(regs[1], regs[2])]
         ELSE [hm_activeflow_m3h |-> RoundDiv(u32(regs[1], regs[2]), 100),
               hm_flow_m3h       |-> RoundDiv(u32(regs[1], regs[2]), 100)]

\* the partials of the registers the device answers with, converted once
Converted == [w \in Pollers |-> [i \in 1 .. StepsOf[w] |-> PartialOf(w, i, Registers[w][i])]]

\* the partial a poller builds at read i from what safe_regs returned
Fed(w, i, regs) == IF regs = Registers[w][i] THEN Converted[w][i] ELSE PartialOf(w, i, regs)

\* a failed read that wipes the fields it feeds
ReadUpdate_ClearOnFailure(d, w, i, regs) ==
    IF regs = NoRegs
    THEN StoreUpdate(d, [k \in DOMAIN Converted[w][i] |-> EmptyStore[k]])
    ELSE StoreUpdate(d, Fed(w, i, regs))

\* if regs: STORE.update({...})
ReadUpdate(d, w, i, regs) == IF regs = NoRegs THEN d ELSE StoreUpdate(d, Fed(w, i, regs))

\* the statement after step i of an iteration of n steps: the next step, or
\* the loop test (0) after the last
NextStep(i, n) == IF i = n THEN 0 ELSE i + 1

\* a loop that never looks at its flag
Continues_Always(running) == TRUE

\* while self.running:
Continues(running) == running

\* closeEvent clears the flags in this order
StopOrder == <<"BusReader", "HeatReader", "DBWriterSQLite">>

InitWorkers ==
    /\ now = T0
    /\ store = EmptyStore
    /\ first_saved = FALSE
    /\ last_logical_status = NoStatus
    /\ last_status_stored = NoStatus
    /\ last_save_time = 0
    /\ current_day_local = LocalDay(T0)
    /\ last_read_data = EmptyStore
    /\ last_read_ts_utc_s = NULL
    /\ offline_segments = {}
    /\ loc = [w \in Workers |-> [running |-> TRUE, pc |-> 0, regs |-> NoRegs, exited |-> FALSE]]
    /\ hp_samples = {}
    /\ day_summary = {}
    /\ month_summary = {}
    /\ year_summary = {}
    /\ total_summary = {}
    /\ ticks = 0
    /\ runs = 1
    /\ call = NoCall

\* while self.running: the test at the head of the loop
LoopTest(w) ==
    /\ loc[w].pc = 0 /\ ~loc[w].exited
    /\ loc' = IF Continues(loc[w].running)
              THEN [loc EXCEPT ![w].pc = 1]
              ELSE [loc EXCEPT ![w].exited = TRUE]
    /\ UNCHANGED <<now, store, engine, tables, call, ticks, runs>>

\* one register read of a poller and the update that depends on it; an
\* exception raised in run ends the thread
PollerRead(w, outcome) ==
    /\ loc[w].pc \in 1 .. StepsOf[w] /\ ~loc[w].exited
    /\ LET regs == safe_regs(outcome, Registers[w][loc[w].pc])
       IN  IF Raises(regs)
           THEN /\ store' = store
                /\ loc' = [loc EXCEPT ![w].exited = TRUE, ![w].regs = regs]
           ELSE /\ store' = ReadUpdate(store, w, loc[w].pc, regs)
                /\ loc' = [loc EXCEPT ![w].pc = NextStep(loc[w].pc, StepsOf[w]),
                                      ![w].regs = regs]
    /\ UNCHANGED <<now, engine, tables, call, ticks, runs>>

\* DBWriterSQLite.run: time.sleep(XSEC), then the body up to the loop test
EngineIteration ==
    /\ loc["DBWriterSQLite"].pc \in 1 .. StepsOf["DBWriterSQLite"]
    /\ loc' = [loc EXCEPT !["DBWriterSQLite"].pc =
                              NextStep(loc["DBWriterSQLite"].pc, StepsOf["DBWriterSQLite"])]
    /\ UNCHANGED <<now, store, engine, tables, call, ticks, runs>>

\* closeEvent: <worker>.running = False, after the flags before it
Stop(k) ==
    /\ loc[StopOrder[k]].running
    /\ \A j \in 1 .. k - 1 : ~loc[StopOrder[j]].running
    /\ loc' = [loc EXCEPT ![StopOrder[k]].running = FALSE]
    /\ UNCHANGED <<now, store, engine, tables, call, ticks, runs>>

WorkerStep(w) ==
    \/ LoopTest(w)
    \/ w \in Pollers /\ \E outcome \in Outcomes : PollerRead(w, outcome)
    \/ w = "DBWriterSQLite" /\ EngineIteration

NextWorkers ==
    \/ \E w \in Workers : WorkerStep(w)
    \/ \E k \in 1 .. Len(StopOrder) : Stop(k)

SpecWorkers == InitWorkers /\ [][NextWorkers]_vars

\* every thread that has a step to take gets to take it
SpecWorkersFair == SpecWorkers /\ \A w \in Workers : WF_vars(WorkerStep(w))

-----------------------------------------------------------------------------
(* A failed register read *)

\* poller w takes the step of a register read
ReadStep(w) ==
    /\ loc[w].pc \in 1 .. StepsOf[w]
    /\ loc'[w].pc # loc[w].pc \/ loc'[w].exited # loc[w].exited

\* the read failed, or gave the registers asked for
FailedOrWhole(w) == loc'[w].regs \in {NoRegs, Registers[w][loc[w].pc]}

\* the keys read number i of poller w feeds
KeysFed(w, i) == DOMAIN Converted[w][i]

\* C21: when one register read of a poller fails (exception, error response,
\* no response), the store fields that read feeds keep their values or stay
\* absent; whatever the outcome, the fields of the other reads are left alone,
\* the next read of the cycle comes next, and after the last read the poller
\* is back at the head of its loop for the next cycle.
C21_FailedReadSkipsItsFieldOnly ==
    [][\A w \in Pollers : (ReadStep(w) /\ FailedOrWhole(w)) =>
          LET i == loc[w].pc
          IN  /\ loc'[w].regs = NoRegs => store' = store
              /\ loc'[w].regs # NoRegs =>
                    \A k \in KeysFed(w, i) : store'[k] = Converted[w][i][k]
              /\ \A k \in DOMAIN store \ KeysFed(w, i) : store'[k] = store[k]
              /\ loc'[w].pc = IF i = StepsOf[w] THEN 0 ELSE i + 1
              /\ ~loc'[w].exited]_vars

\* the first read of BusReader has only failed while its second and third
\* succeeded, and the first read of HeatReader has just failed over a value
\* an earlier cycle had stored
C21_Witness ==
    /\ store.em_activepower = NULL
    /\ store.em_total_fwd = 70000
    /\ store.ts_ambient_temp = -500 /\ store.ts_ambient_humidity = 4550
    /\ loc["HeatReader"].pc = 2 /\ loc["HeatReader"].regs = NoRegs
    /\ store.hm_temp_IN = 4500 /\ store.hm_flow_m3h = 50

-----------------------------------------------------------------------------
(* Day rollover *)

DayRowsIn(daytab, day) == {r \in daytab : r.day_date = day}

MonthRowsIn(monthtab, day) ==
    {r \in monthtab : /\ r.year = DateOf(day).year /\ r.month = DateOf(day).month
                      /\ r.day = DateOf(day).day}

\* the tick at now' finds the local day changed
RolloverTick == ProcessedTick /\ LocalDay(now') # current_day_local

\* the offline gap this tick detects makes it rebuild the previous day again
\* after its inserts
PrevDayInGap ==
    /\ ~first_saved
    /\ PendingOffline(first_saved, hp_samples, now') # NULL
    /\ \E o \in compute_offline_segments(PendingOffline(first_saved, hp_samples, now'), now') :
           o.day = current_day_local

\* C22: when the local day of a processed tick differs from current_day_local,
\* the previous day's DaySegments are rebuilt and rolled up into month, year
\* and total from the Samples as they are before the tick writes any, and
\* current_day_local becomes the new day; after every processed tick
\* current_day_local is the local date of that tick.
C22_RolloverFinalizesPreviousDay ==
    [][ProcessedTick =>
          /\ current_day_local' = LocalDay(now')
          /\ (RolloverTick /\ ~PrevDayInGap) =>
                LET prev == current_day_local
                    fin  == RebuildDay(Db, offline_segments, prev)
                IN  /\ DayRowsIn(day_summary', prev) = DayRowsIn(fin.d, prev)
                    /\ MonthRowsIn(month_summary', prev) = MonthRowsIn(fin.m, prev)
                    /\ \A m \in MonthRowsIn(month_summary', prev) :
                          /\ \E y \in year_summary' :
                                y.year = m.year /\ y.month = m.month /\ y.status = m.status
                          /\ \E t \in total_summary' :
                                t.year = m.year /\ t.status = m.status]_vars

\* the rollover tick gave the previous day its rows: its only Sample is the
\* ON row of the first write, after which no rebuild had run
C22_Witness ==
    /\ loc.processed /\ loc.rollover /\ runs = 1
    /\ current_day_local = LocalDay(T0) + 1
    /\ \A r \in hp_samples : LocalDay(r.ts_utc_s) = LocalDay(T0) => r.status = "ON"
    /\ \E seg \in day_summary : seg.day_date = LocalDay(T0) /\ seg.status = "ON"
    /\ \E m \in month_summary : m.year = DateOf(LocalDay(T0)).year /\ m.status = "ON"

-----------------------------------------------------------------------------
(* Today's rebuild on a status change *)

\* the tick at now' wrote a Sample whose status differs from the one stored before
StatusChangeWrite == ProcessedTick /\ loc'.should_write /\ loc'.status_changed

\* C23: when a tick that wrote a status-change Sample completes, the
\* DaySegments of the current local day are what a rebuild of that day gives
\* over the Samples including the row just written, and the month, year and
\* total rows are what a roll-up of that day gives from them: rebuilding and
\* rolling up today once more changes nothing.
C23_TodayRebuiltOnStatusChange ==
    [][StatusChangeWrite =>
          /\ SampleRow(store, loc'.status_to_store, now') \in hp_samples'
          /\ DayRowsIn(day_summary', LocalDay(now')) =
                 DayRowsIn(build_day_summary_for_date(hp_samples', {}, offline_segments',
                                                      LocalDay(now')),
                           LocalDay(now'))
          /\ RebuildDay(Db', offline_segments', LocalDay(now')) = Db']_vars

\* Heating was written after a Standby run of today: today holds the Standby
\* segment and its month, year and total rows
C23_Witness ==
    /\ loc.processed /\ loc.should_write /\ loc.status_changed
    /\ loc.status_to_store = "H"
    /\ \E seg \in day_summary :
           /\ seg.day_date = LocalDay(now) /\ seg.status = "S" /\ seg.total_time_s > 0
           /\ \E m \in MonthRowsIn(month_summary, LocalDay(now)) :
                  m.status = "S" /\ m.total_time_s = seg.total_time_s
    /\ \E t \in total_summary : t.status = "S" /\ t.total_time_s > 0

-----------------------------------------------------------------------------
(* A tick that does not write *)

\* the tick at now' decides not to write, on the day current_day_local
QuietTick == ProcessedTick /\ ~loc'.should_write /\ LocalDay(now') = current_day_local

\* C24: a tick that decides not to write, with no day rollover, leaves the
\* Sample table, the four summary tables, last_save_time, last_status_stored
\* and first_saved as they were; it records the classifier's output and the
\* snapshot and timestamp of this read, and nothing else.
C24_SkippedTickTouchesNoTable ==
    [][QuietTick =>
          /\ UNCHANGED <<hp_samples, day_summary, month_summary, year_summary, total_summary>>
          /\ UNCHANGED <<last_save_time, last_status_stored, first_saved>>
          /\ UNCHANGED <<store, current_day_local, offline_segments>>
          /\ last_logical_status' = Classified
          /\ last_read_data' = store
          /\ last_read_ts_utc_s' = now']_vars

\* a tick inside the dwell interval of an unchanged status was skipped: the
\* read is newer than the last write
C24_Witness ==
    /\ loc.processed /\ ~loc.should_write /\ ~loc.rollover
    /\ first_saved /\ hp_samples # {}
    /\ last_read_ts_utc_s = now /\ last_save_time = now - XSEC
    /\ last_read_data = store
    /\ last_logical_status = last_status_stored

-----------------------------------------------------------------------------
(* Cooperative stop *)

\* C25: once a worker's running flag has been cleared, the worker (bus
\* poller, heat-meter poller or engine) starts no new loop iteration, and its
\* loop ends after at most the iteration that was in progress.
C25_CooperativeStop ==
    /\ [][\A w \in Workers :
             (~loc[w].running /\ loc[w].pc = 0) => (loc'[w].pc = 0 /\ ~loc'[w].running)]_vars
    /\ \A w \in Workers : (~loc[w].running) ~> loc[w].exited

\* the pollers have left their loops, and the engine, its flag cleared while
\* it slept, is in the body of its last iteration
C25_Witness ==
    /\ loc["BusReader"].exited /\ loc["HeatReader"].exited
    /\ ~loc["DBWriterSQLite"].running /\ ~loc["DBWriterSQLite"].exited
    /\ loc["DBWriterSQLite"].pc = StepsOf["DBWriterSQLite"]
    /\ store # EmptyStore

-----------------------------------------------------------------------------
(* The mode from tick to tick: every iteration that has a snapshot classifies *)
(* it against last_logical_status and stores the result there, whether it     *)
(* writes a Sample or not.                                                    *)

\* snapshots on both sides of the power and flow thresholds, the inlet below,
\* at and above the outlet
ModeSnapshots ==
    {[EmptyStore EXCEPT !.em_activepower = p, !.hm_activeflow_m3h = f, !.hm_flow_m3h = f,
                        !.hm_temp_IN = ti, !.hm_temp_OUT = 4000, !.ts_ambient_temp = a] :
        p \in {0, HPWORKMIN + 1, HPWORK, HPWORK + 1}, f \in {0, 1, HPFLOW + 1},
        ti \in {3000, 4000, 5000}, a \in {HPAMB - 1, HPAMB}}

InitModes ==
    /\ now = T0
    /\ store = EmptyStore
    /\ first_saved = FALSE
    /\ last_logical_status = NoStatus
    /\ last_status_stored = NoStatus
    /\ last_save_time = 0
    /\ current_day_local = LocalDay(T0)
    /\ last_read_data = EmptyStore
    /\ last_read_ts_utc_s = NULL
    /\ offline_segments = {}
    /\ loc = NoLoc
    /\ hp_samples = {}
    /\ day_summary = {}
    /\ month_summary = {}
    /\ year_summary = {}
    /\ total_summary = {}
    /\ ticks = 0
    /\ runs = 1
    /\ call = NoCall

\* data_now = self.store.snapshot(); logical_status = compute_logical_status(data_now);
\* self.last_logical_status = logical_status
ModeTick(data_now) ==
    /\ store' = data_now
    /\ last_logical_status' = compute_logical_status(data_now, last_logical_status)
    /\ UNCHANGED <<now, first_saved, last_status_stored, last_save_time, current_day_local,
                   last_read_data, last_read_ts_utc_s, offline_segments,
                   tables, loc, call, ticks, runs>>

NextModes == \E data_now \in ModeSnapshots : ModeTick(data_now)

SpecModes == InitModes /\ [][NextModes]_vars

\* 90 W < power <= 300 W and flow > 0.2
Coasting(d) ==
    /\ OrZero(d.em_activepower) > HPWORKMIN /\ OrZero(d.em_activepower) <= HPWORK
    /\ OrZero(d.hm_activeflow_m3h) > HPFLOW

\* C26: over any sequence of ticks the logical status changes to Heating,
\* Cooling or Defrost only at a tick whose snapshot has power above 300 W and
\* flow above 0; a coasting tick returns the previous logical status (Standby
\* if there is none) and so changes nothing.
C26_ActiveModesNeedPowerAndFlow ==
    [][/\ (last_logical_status' # last_logical_status
           /\ last_logical_status' \in {"H", "C", "D"}) =>
              (OrZero(store'.em_activepower) > HPWORK /\ OrZero(store'.hm_activeflow_m3h) > 0)
       /\ Coasting(store') =>
              last_logical_status' = PreviousOrStandby(last_logical_status)]_vars

\* a coasting tick has kept Defrost
C26_Witness == Coasting(store) /\ last_logical_status = "D"

-----------------------------------------------------------------------------
(* The previous mode of the classifier *)

\* C27: in every reachable state of the engine last_logical_status is unset
\* (before the first processed tick of a run) or one of S, H, C, D: the
\* classifier never returns a boundary status and never receives one as its
\* previous mode, not even on the tick after the ON Sample was stored.
C27_PreviousModeNeverBoundary ==
    /\ last_logical_status \in {NoStatus} \cup allowed_status
    /\ last_logical_status = NoStatus => ~loc.processed
    /\ ~IsEmpty(store) =>
          compute_logical_status(store, last_logical_status) \in allowed_status

\* the first write of a run has just stored ON while the classifier said
\* Heating: the mode kept for the next tick is Heating
C27_Witness ==
    /\ loc.processed /\ loc.should_write
    /\ last_status_stored = "ON" /\ loc.status_to_store = "ON"
    /\ last_logical_status = "H"

-----------------------------------------------------------------------------
(* Returned mappings as objects.  A mapping a caller holds is either a dict  *)
(* of its own or the dict of the store itself; which of the two comes back   *)
(* from update and snapshot is what return self._d.copy() decides.           *)

\* a way of returning the dict that hands out self._d itself
DictCopy_Same(d) == [alias |-> TRUE, d |-> d]

\* self._d.copy(): a new dict with the items of d
DictCopy(d) == [alias |-> FALSE, d |-> d]

\* the items a held mapping shows when it is read
Items(m, d) == IF m.alias THEN d ELSE m.d

\* nothing held yet
NoMapping == [alias |-> FALSE, d |-> EmptyStore]

\* what the pollers write between two reads of the engine
CopyPartials == {[em_activepower |-> 50], [em_activepower |-> 400]}

InitCopy ==
    /\ now = T0
    /\ store = EmptyStore
    /\ first_saved = FALSE
    /\ last_logical_status = NoStatus
    /\ last_status_stored = NoStatus
    /\ last_save_time = 0
    /\ current_day_local = LocalDay(T0)
    /\ last_read_data = NoMapping
    /\ last_read_ts_utc_s = NULL
    /\ offline_segments = {}
    /\ loc = [snap |-> NoMapping, ret |-> NoMapping]
    /\ hp_samples = {}
    /\ day_summary = {}
    /\ month_summary = {}
    /\ year_summary = {}
    /\ total_summary = {}
    /\ ticks = 0
    /\ runs = 1
    /\ call = [op |-> "none", at_read |-> EmptyStore]

\* STORE.update(partial), its result dropped (the pollers) or kept by the caller
CopyUpdate(partial, keep) ==
    /\ store' = StoreUpdate(store, partial)
    /\ loc' = IF keep THEN [loc EXCEPT !.ret = DictCopy(StoreUpdate(store, partial))] ELSE loc
    /\ call' = [call EXCEPT !.op = "update"]
    /\ UNCHANGED <<now, engine, tables, ticks, runs>>

\* snap = STORE.snapshot() in the dashboard
CopySnapshot ==
    /\ loc' = [loc EXCEPT !.snap = DictCopy(store)]
    /\ call' = [call EXCEPT !.op = "snapshot"]
    /\ UNCHANGED <<now, store, engine, tables, ticks, runs>>

\* the holder of snap sets a key of the mapping it was given
CopyChange(k, v) ==
    /\ loc.snap # NoMapping
    /\ IF loc.snap.alias
       THEN store' = [store EXCEPT ![k] = v] /\ loc' = loc
       ELSE store' = store /\ loc' = [loc EXCEPT !.snap.d[k] = v]
    /\ call' = [call EXCEPT !.op = "change"]
    /\ UNCHANGED <<now, engine, tables, ticks, runs>>

\* an iteration of the engine: data_now = self.store.snapshot() ...
\* self.last_read_data = data_now; self.last_read_ts_utc_s = ts_now_utc_s
CopyRead ==
    /\ ~IsEmpty(store)
    /\ last_read_data' = DictCopy(store)
    /\ last_read_ts_utc_s' = now
    /\ call' = [op |-> "read", at_read |-> store]
    /\ UNCHANGED <<now, store, first_saved, last_logical_status, last_status_stored,
                   last_save_time, current_day_local, offline_segments,
                   tables, loc, ticks, runs>>

\* self.insert_sample(cur, self.last_read_data, "S", self.last_read_ts_utc_s)
CopyBridge ==
    /\ last_read_ts_utc_s # NULL
    /\ hp_samples' = insert_sample(hp_samples, Items(last_read_data, store), "S",
                                   last_read_ts_utc_s)
    /\ store' = StoreUpdate(store, [last_ts_utc_s |-> last_read_ts_utc_s, status |-> "S"])
    /\ call' = [call EXCEPT !.op = "bridge"]
    /\ UNCHANGED <<now, engine, day_summary, month_summary, year_summary, total_summary,
                   loc, ticks, runs>>

NextCopy ==
    \/ \E partial \in CopyPartials : \E keep \in BOOLEAN : CopyUpdate(partial, keep)
    \/ CopySnapshot
    \/ \E k \in {"em_activepower"} : \E v \in {0} : CopyChange(k, v)
    \/ CopyRead
    \/ CopyBridge

SpecCopy == InitCopy /\ [][NextCopy]_vars

\* a held mapping shows after the step what it showed before
Keeps(m) == Items(m, store') = Items(m, store)

\* C28: a mapping returned by snapshot() or update() is a copy: no later
\* update of the store changes a mapping returned earlier, and changing a
\* returned mapping does not change the store; so the data of a bridging
\* Sample are the field values of the previous read, not those of the tick
\* that inserts it.
C28_ReturnedMappingsAreCopies ==
    [][/\ loc'.snap = loc.snap => Keeps(loc.snap)
       /\ loc'.ret = loc.ret => Keeps(loc.ret)
       /\ last_read_data' = last_read_data => Keeps(last_read_data)
       /\ call'.op = "change" => store' = store
       /\ call'.op = "bridge" =>
             SampleRow(call.at_read, "S", last_read_ts_utc_s) \in hp_samples']_vars

\* the power changed after the engine's read and the bridging Sample carries
\* the power of the read; the mapping update returned and the one the
\* dashboard changed differ from the store
C28_Witness ==
    /\ call.op = "bridge"
    /\ store.em_activepower = 400
    /\ \E r \in hp_samples : r.em_activepower = 50 /\ r.status = "S"
    /\ loc.ret.d.em_activepower = 50
    /\ loc.snap.d.em_activepower = 0

-----------------------------------------------------------------------------
(* A malformed register list *)

\* C29: no result of a single register read ends a poller: whether the driver
\* raises, returns an error response, returns nothing or returns a malformed
\* register list (fewer words than the two asked for), the loop keeps
\* running, so a poller leaves its loop only after its flag was cleared.
C29_NoReadEndsAPoller ==
    \A w \in Pollers : loc[w].exited => ~loc[w].running

-----------------------------------------------------------------------------
(* Time bounds of the day segments *)

\* C30: every day_summary row with a status other than ON lies inside its
\* day (local midnight <= start < end <= next local midnight) and its
\* duration is end - start > 0; every ON row has duration 0 and start <= end.
C30_SegmentTimeBounds ==
    \A r \in day_summary :
        IF r.status = "ON"
        THEN r.total_time_s = 0 /\ r.start_ts_utc_s <= r.end_ts_utc_s
        ELSE /\ DayStartUtc(r.day_date) <= r.start_ts_utc_s
             /\ r.start_ts_utc_s < r.end_ts_utc_s
             /\ r.end_ts_utc_s <= DayStartUtc(r.day_date) + DaySec
             /\ r.total_time_s = r.end_ts_utc_s - r.start_ts_utc_s
             /\ r.total_time_s > 0

\* an OFF row cut at a midnight, a running segment and an ON row that reaches
\* back to the sample before it
C30_Witness ==
    /\ \E r \in day_summary : /\ r.status = "OFF"
                              /\ r.end_ts_utc_s = DayStartUtc(r.day_date) + DaySec
    /\ \E r \in day_summary : r.status \in allowed_status
    /\ \E r \in day_summary : r.status = "ON" /\ r.start_ts_utc_s < r.end_ts_utc_s

-----------------------------------------------------------------------------
(* OFF rows of an earlier run *)

\* C31: an OFF row the gap backfill inserted for a day is still present after
\* every later rebuild of that day, whatever caused the rebuild: a status
\* change, a day rollover, or the gap backfill of a later run.
C31_BackfilledOffSurvives ==
    call.op = "build_day_summary_for_date" =>
        \A r \in call.before :
            (r.status = "OFF" /\ r.day_date = call.day) => r \in day_summary

-----------------------------------------------------------------------------
(* The mode the classifier holds over *)

\* C32: at the end of every processed tick after the run's first write, if
\* last_status_stored is not "ON" then last_logical_status equals
\* last_status_stored, also after ticks that were not persisted.
C32_HeldModeIsLastStored ==
    (first_saved /\ last_status_stored # "ON") =>
        last_logical_status = last_status_stored

\* a tick that was not persisted, while a running mode is the stored status
C32_Witness ==
    /\ loc.processed /\ ~loc.should_write
    /\ first_saved
    /\ last_status_stored \in allowed_status \ {"S"}
    /\ last_logical_status = last_status_stored

-----------------------------------------------------------------------------
(* The tick after the ON write *)

\* the tick at now' is the first one after the ON write of the run
TickAfterOn == TickStep /\ last_status_stored = "ON"

\* the ON marker of the run's first write, as a day_summary row
OnMarker(daytab, ts_on) ==
    \E r \in daytab : r.status = "ON" /\ r.end_ts_utc_s = ts_on /\ r.total_time_s = 0

\* C33: in every run the first tick after the ON write is processed, writes
\* a Sample with a status other than ON and OFF, and rebuilds and rolls up the
\* current day, so ON is the last stored status for one tick at most and the
\* ON marker is in day_summary by that tick, offline gap or not.
C33_OnLastsOneTick ==
    [][TickAfterOn =>
          /\ ~IsEmpty(store)
          /\ Classified \in allowed_status
          /\ AddsExactly({TickRow(Classified)})
          /\ last_status_stored' = Classified
          /\ RebuildDay(Db', offline_segments', LocalDay(now')) = Db'
          /\ OnMarker(day_summary', last_save_time)]_vars

\* the second tick of a first run, with no offline gap: the ON marker is in
\* day_summary next to the two Samples
C33_Witness ==
    /\ runs = 1 /\ ticks = 2 /\ loc.processed /\ loc.should_write
    /\ offline_segments = {}
    /\ last_status_stored \in allowed_status
    /\ Cardinality(hp_samples) = 2
    /\ \E r \in hp_samples : r.status = "ON" /\ OnMarker(day_summary, r.ts_utc_s)

-----------------------------------------------------------------------------
(* The rebuild as the database sees it: the engine's connection is opened   *)
(* with isolation_level=None, so every statement is committed on its own,   *)
(* and the dashboard reads through a connection of its own.                 *)

\* the rows of the day that the rebuild works on
RowsOfDay == OrderByTs(DayRows(hp_samples, DayStartUtc(RebuiltDay), DayStartUtc(RebuiltDay) + DaySec))

\* a database left by a complete rebuild and roll-up of the day, made when
\* hp_samples held fewer rows and offline_segments was another
InitAutocommit ==
    /\ now = DayStartUtc(RebuiltDay) + 40
    /\ store = EmptyStore
    /\ first_saved = TRUE
    /\ last_logical_status = "S"
    /\ last_status_stored = "S"
    /\ last_save_time = DayStartUtc(RebuiltDay) + 30
    /\ current_day_local = RebuiltDay
    /\ last_read_data = EmptyStore
    /\ last_read_ts_utc_s = NULL
    /\ offline_segments \in OfflineChoices
    /\ \E samples \in SampleTables : \E earlier \in SUBSET samples : \E off \in OfflineChoices :
           SetTablesTo(RebuildDay([s |-> earlier, d |-> {}, m |-> {}, y |-> {}, t |-> {}],
                                  off, RebuiltDay), samples)
    /\ ticks = 0
    /\ runs = 1
    /\ call = [pc |-> 0, before |-> Db]
    /\ loc = [read |-> FALSE, seen |-> Db]

\* what a statement of the engine leaves when it returns: it is committed
Commit(pc, daytab, monthtab, yeartab, totaltab) ==
    /\ call' = [call EXCEPT !.pc = pc]
    /\ day_summary' = daytab
    /\ month_summary' = monthtab
    /\ year_summary' = yeartab
    /\ total_summary' = totaltab
    /\ UNCHANGED <<now, store, engine, hp_samples, loc, ticks, runs>>

\* DELETE FROM day_summary WHERE day_date = ?
StmtDeleteDay ==
    /\ call.pc = 0
    /\ Commit(1, DeleteDay(day_summary, RebuiltDay), month_summary, year_summary, total_summary)

\* 1) the INSERTs of the ON rows
StmtInsertOn ==
    /\ call.pc = 1
    /\ Commit(2, InsertOnRows(day_summary, hp_samples, RebuiltDay, DayStartUtc(RebuiltDay), RowsOfDay, 1), month_summary, year_summary, total_summary)

\* 2) the INSERTs of the S/H/C/D segments
StmtInsertSegments ==
    /\ call.pc = 2
    /\ Commit(3, SegmentLoop(day_summary, RebuiltDay, DayStartUtc(RebuiltDay), RowsOfDay, 1, 0), month_summary, year_summary, total_summary)

\* 3) the INSERTs of the OFF rows
StmtInsertOff ==
    /\ call.pc = 3
    /\ Commit(4, InsertOffRows(day_summary, RebuiltDay, DayStartUtc(RebuiltDay), DayStartUtc(RebuiltDay) + DaySec, {o \in offline_segments : o.day = RebuiltDay}), month_summary, year_summary, total_summary)

\* update_month_year_total_for_day: the month table
StmtRollupMonth ==
    /\ call.pc = 4
    /\ Commit(5, day_summary, UpdateMonth(day_summary, month_summary, RebuiltDay), year_summary, total_summary)

\* update_month_year_total_for_day: the year table
StmtRollupYear ==
    /\ call.pc = 5
    /\ Commit(6, day_summary, month_summary, UpdateYear(month_summary, year_summary, RebuiltDay), total_summary)

\* update_month_year_total_for_day: the total table
StmtRollupTotal ==
    /\ call.pc = 6
    /\ Commit(7, day_summary, month_summary, year_summary, UpdateTotal(year_summary, total_summary, RebuiltDay))

\* a query of the dashboard, through its own connection
DashboardQuery ==
    /\ loc' = [read |-> TRUE, seen |-> Db]
    /\ UNCHANGED <<now, store, engine, tables, ticks, runs, call>>

NextAutocommit ==
    \/ StmtDeleteDay
    \/ StmtInsertOn
    \/ StmtInsertSegments
    \/ StmtInsertOff
    \/ StmtRollupMonth
    \/ StmtRollupYear
    \/ StmtRollupTotal
    \/ DashboardQuery

SpecAutocommit == InitAutocommit /\ [][NextAutocommit]_vars

\* C34: a dashboard reader that queries between two statements of the engine
\* sees the day's rows and the month, year and total rows either as they were
\* before the rebuild or as they are after it, never a state in between.
C34_ReaderSeesBeforeOrAfter ==
    loc.read =>
        \/ loc.seen = call.before
        \/ loc.seen = RebuildDay(call.before, offline_segments, RebuiltDay)

-----------------------------------------------------------------------------
(* The time between two writes *)

\* C35: while the engine runs on a store that is not empty, the time between
\* two consecutive Sample writes of a run is bounded: a tick at which 300 s
\* have elapsed since the previous write under a stored Standby, or 10 s
\* under any other stored status, writes a Sample, so that no processed tick
\* ends with a write overdue.
C35_WriteNeverOverdue ==
    [][(ProcessedTick /\ first_saved) =>
          /\ Elapsed >= Dwell(last_status_stored) =>
                 /\ TickRow(Classified) \in hp_samples'
                 /\ last_save_time' = now'
          /\ now' - last_save_time' < Dwell(last_status_stored')]_vars

\* two Standby Samples 300 s apart, the second written for the dwell alone
C35_Witness ==
    /\ loc.processed /\ loc.should_write /\ ~loc.status_changed
    /\ last_status_stored = "S"
    /\ \E r \in hp_samples : /\ r.status = "S"
                             /\ r.ts_utc_s = last_save_time - YSEC
                             /\ ~\E q \in hp_samples : /\ q.ts_utc_s > r.ts_utc_s
                                                       /\ q.ts_utc_s < last_save_time

-----------------------------------------------------------------------------
(* The register conversions on their own: u32 and i16 applied to words.     *)

\* integers as a driver or a caller may hand them over: 16-bit words at the
\* edges of both halves, integers with bits above bit 15, negative integers
WordInputs == {-65537, -32769, -32768, -1, 0, 1, 455, 32767, 32768, 65486,
               65535, 65536, 65537, 98304}

\* every 16-bit word
Words16 == 0 .. 65535

InitWords ==
    /\ now = T0
    /\ store = EmptyStore
    /\ first_saved = FALSE
    /\ last_logical_status = NoStatus
    /\ last_status_stored = NoStatus
    /\ last_save_time = 0
    /\ current_day_local = LocalDay(T0)
    /\ last_read_data = EmptyStore
    /\ last_read_ts_utc_s = NULL
    /\ offline_segments = {}
    /\ hp_samples = {}
    /\ day_summary = {}
    /\ month_summary = {}
    /\ year_summary = {}
    /\ total_summary = {}
    /\ ticks = 0
    /\ runs = 1
    /\ loc = [result |-> <<>>]
    /\ call \in {[op |-> "none", fn |-> "u32", hi |-> hi, lo |-> lo] : hi \in WordInputs, lo \in WordInputs}
                \cup {[op |-> "none", fn |-> "i16", v |-> v] : v \in Words16}

\* u32(hi, lo)
U32Call ==
    /\ call.op = "none" /\ call.fn = "u32"
    /\ call' = [call EXCEPT !.op = "called"]
    /\ loc' = [result |-> u32Halves(call.hi, call.lo)]
    /\ UNCHANGED <<now, store, engine, tables, ticks, runs>>

\* i16(v)
I16Call ==
    /\ call.op = "none" /\ call.fn = "i16"
    /\ call' = [call EXCEPT !.op = "called"]
    /\ loc' = [result |-> <<i16(call.v)>>]
    /\ UNCHANGED <<now, store, engine, tables, ticks, runs>>

NextWords == U32Call \/ I16Call

SpecWords == InitWords /\ [][NextWords]_vars

\* C36: u32(hi, lo) equals (hi mod 65536) * 65536 + (lo mod 65536) for all
\* integer words: the high half of the result is hi mod 65536 and the low
\* half is lo mod 65536, so the result lies in 0 .. 2^32 - 1 and bits above
\* bit 15 of either input are ignored; where the result fits the checker's
\* integers, the number is that sum.
C36_HighThenLow ==
    (call.op = "called" /\ call.fn = "u32") =>
        /\ loc.result = <<call.hi % 65536, call.lo % 65536>>
        /\ loc.result[1] \in Words16 /\ loc.result[2] \in Words16
        /\ loc.result = u32Halves(call.hi + 65536, call.lo - 65536)
        /\ call.hi % 65536 < 32768 =>
               u32(call.hi, call.lo) = (call.hi % 65536) * 65536 + (call.lo % 65536)

\* a negative high word and a low word with a bit above bit 15
C36_Witness ==
    /\ call.op = "called" /\ call.fn = "u32"
    /\ call.hi = -1 /\ call.lo = 65537
    /\ loc.result = <<65535, 1>>

\* C37: for every 16-bit word v in 0 .. 65535, i16(v) is its two's-complement
\* value: v when v < 32768 and v - 65536 otherwise, so the result lies in
\* -32768 .. 32767 and i16 is injective on the 16-bit words (the word is the
\* result mod 65536).
C37_TwosComplement ==
    (call.op = "called" /\ call.fn = "i16") =>
        /\ loc.result[1] = IF call.v < 32768 THEN call.v ELSE call.v - 65536
        /\ loc.result[1] \in -32768 .. 32767
        /\ loc.result[1] % 65536 = call.v

\* the word of the ambient temperature -5.0: 65486 is -50
C37_Witness ==
    /\ call.op = "called" /\ call.fn = "i16"
    /\ call.v = 65486
    /\ loc.result = <<-50>>

=============================================================================
